---- MODULE Spec2Model ----
(***************************************************************************)
(* A model of the streaming event pipeline of the SIEM services:           *)
(*   filter          services/filter/worker.py, filter_core.py             *)
(*   stream corr.    services/stream_corr/worker.py, rules.py              *)
(*   normalizer      services/normalizer/worker.py, normalizer_core.py     *)
(*   writer          services/writer/worker.py, writer_core.py             *)
(* Each stage is an independent process; each has its own specification    *)
(* (SpecFilter, SpecCorr, SpecNorm, SpecWriter, SpecCore, ...) over its    *)
(* own variables, the other stages' variables staying at their initial     *)
(* value.                                                                  *)
(*                                                                         *)
(* Python values: a dict is a function from a finite set of strings; a     *)
(* str is a TLA+ string; None is the string None below, which no field of  *)
(* the model uses as data; a list is a sequence.                           *)
(***************************************************************************)
EXTENDS Integers, Sequences, FiniteSets, TLC

VARIABLES
    \* ---- filter: FilterWorker
    \* f_rules is self._rules; the others are the locals of the consume
    \* loop's iteration for one message, dead once the message is handled
    f_rules,      \* self._rules
    f_argEvent,   \* the event dict as passed to apply_rules
    f_argRules,   \* self._rules as the apply_rules call started
    f_event,      \* the caller's event dict after the call returned
    f_result,     \* the dict apply_rules returned
    f_decision,   \* the decision apply_rules returned ("none": no call in hand)
    \* ---- stream correlator: StreamCorrWorker, its consumer group on
    \* FILTERED, its keys in the broker, and alerts_raw
    s_rules,      \* self._rules
    s_stream,     \* the entries of FILTERED after the group's position, in order
                  \* (the entries before it are never read again); the id of
                  \* an entry is its index in the stream, from 1
    s_pos,        \* the group's last-delivered id (0: none)
    s_pel,        \* ids delivered to the consumer and not acknowledged
    s_acked,      \* ids acknowledged
    s_zset,       \* siem:stream_corr:rule:<id>:ent:<entity> -> {<<member, score>>}
    s_last,       \* siem:stream_corr:last_alert:<id>:<entity> -> value or NoKey
    s_clock,      \* the worker's last reading of time.time()
    s_alerts,     \* rows of siem.alerts_raw inserted by the worker, in order
    s_emitted,    \* history: the alerts _check_threshold_and_should_alert asked for
    s_failed,     \* history: the ids read in an iteration whose insert raised
    \* ---- normalizer: NormalizerWorker, RAW, NORMALIZED, siem.events
    n_pc,         \* "created" (after __init__) or "running" (after init)
    n_rules,      \* self._rules
    n_raw,        \* the entries of RAW; the id of an entry is its index, from 1
    n_last_id,    \* self._last_id (0 is "0-0")
    n_normalized, \* the records appended to NORMALIZED, in order
    n_events,     \* the rows the normalizer inserted into siem.events, in order
    n_call,       \* history: the last apply_rules call, [raw, rules, ret, uem]
    \* ---- writer: WriterWorker (worker.py and writer_core.py), the consumer
    \* group "writer" on FILTERED, and siem.events
    w_log,        \* the entries of FILTERED; the id of an entry is its index, from 1
    w_pos,        \* the group's last-delivered id (0 is "0-0")
    w_pel,        \* ids delivered to the consumer and not acknowledged
    w_events,     \* the rows of siem.events
    w_clock,      \* the writer's last reading of datetime.now
    c_batch,      \* writer_core: the list batch of run_forever, [id, payload]
    w_acked,      \* history: the ids the writer passed to XACK
    w_inserted,   \* history: the ids whose row an insert that returned carried
    w_raised,     \* history: the ids whose row construction raised
    w_replayed,   \* history: the ids inserted and acknowledged before, that
                  \* were delivered again and carried by an insert that returned
    \* ---- parse_expr and a caller of it
    p_call,       \* the call in hand, [expr, ret, ast]; ret is "nocall", "ast"
                  \* (returned) or "raise"
    \* ---- the stream correlator fed one entry per iteration (SpecWindow)
    s_times,      \* history: s_times[id] is the reading of time.time() of the
                  \* iteration that read entry id
    \* ---- the worker processes
    x_pc,         \* x_pc[w]: worker w is in "init", in its loop ("run"), or
                  \* ended by an exception that left main ("dead")
    b_executed,   \* batch correlator: the statements that were executed
    \* ---- the rule lists of the filter and of the stream correlator, their
    \* ---- reload tasks and their readers; a rule is <<version, index>>
    r_store,      \* the version of the rule tables in the column store
    r_rules,      \* r_rules[w]: self._rules of worker w
    r_loop,       \* r_loop[w]: the "for rule in self._rules" in progress for
                  \* the event in hand, [active, list, idx]
    r_applied,    \* history: r_applied[w] is the rules visited for the last
                  \* event, in order
    r_fails,      \* history: r_fails[w] counts the reloads that raised
    \* ---- the consume loop of the filter, and the reads of the cursor workers
    k_last_id,    \* the filter's self._last_id: the index in NORMALIZED of the
                  \* last entry taken, 0 for "0-0"
    k_filtered,   \* the stream FILTERED as the filter fills it
    k_req,        \* history: k_req[w] is the last XREAD of worker w, [after,
                  \* ok]: the id it asked to read after, and whether it returned
    k_seen,       \* history: k_seen[w] is the ids worker w took from a read
    k_origin,     \* history: k_origin[w][i] is the id of the upstream entry
                  \* from which worker w made entry i of its downstream stream
    k_dropped,    \* history: k_dropped[w] is the ids of the upstream entries
                  \* whose XADD raised in worker w
    \* ---- the consumer groups of FILTERED, seen from the workers' init
    g_len,        \* the number of entries of FILTERED
    g_group,      \* g_group[g]: group g in the broker, [exists, pos, pel]: pos
                  \* is the last id delivered, pel the ids pending
    g_create,     \* history: g_create[w] is what xgroup_create answered in
                  \* the init of the process of worker w, "none" before it
    g_loaded,     \* history: load_stream_rules returned in the last init of
                  \* the stream correlator
    g_times,      \* history: g_times[g][id] is how many times entry id of
                  \* FILTERED was delivered to group g since the broker last
                  \* lost its data (counted up to 2)
    \* ---- ipv4_to_int and a caller of it
    ip_call,      \* the call in hand, [ip, ret, value]; ret is "nocall" or
                  \* "return"
    \* ---- the alerts aggregator, siem.alerts_raw and siem.alerts_agg
    a_raw,        \* the rows of siem.alerts_raw, in the order of their insertion
    a_agg,        \* the rows of siem.alerts_agg
    a_pc,         \* the aggregator is in "sleep", or in _run_aggregation after
                  \* its first statement ("truncated") or its second ("inserted")
    a_src,        \* history: the rows of alerts_raw that the last INSERT ...
                  \* SELECT that returned has read
    a_last,       \* history: how the last _run_aggregation ended: "none" (no
                  \* run yet), "ok" (returned) or "failed" (raised)
    \* ---- the batch correlator and the statements it executes
    bc_pc,        \* "run": in its loop; "dead": an exception left run
    bc_ticks,     \* the calls of _run_rules_once that returned
    bc_log,       \* history: the last call of _run_rules_once, [table,
                  \* stmts]: the rows of correlation_rules_batch it found and
                  \* the statements it executed, in order, each [rule_id,
                  \* sql, ok]; NoLog before any call and when the call raised
    bc_failed,    \* history: a statement raised in a call before the last
    \* ---- replicas of the stream correlator in one consumer group, and the
    \* ---- broker keys of one (rule, entity)
    q_next,       \* the id of the next entry of FILTERED the group delivers
    q_clock,      \* the wall clock
    q_pc,         \* q_pc[r]: replica r is "idle", has "taken" an entry and read
                  \* the clock, or has "read" the answer of the pipeline
    q_loc,        \* q_loc[r]: the locals of replica r, [msg, now, count, last,
                  \* read_at]: read_at is the operation that read last
    q_zset,       \* the ordered set of the (rule, entity)
    q_last,       \* its last_alert key: the value or NoKey
    q_ops,        \* history: the number of broker operations on the two keys
    q_alerts,     \* history: the alerts decided, [replica, t, read_at,
                  \* write_at]: the operations that read and wrote last_alert
    q_active,     \* history: the replicas that have taken an entry
    \* normalizer, with its rules loaded from siem.normalizer_rules
    nl_pc,        \* "created" before load_rules has returned, then "running"
    nl_table,     \* history: the rows of siem.normalizer_rules at the load
    nl_rules,     \* self._rules
    nl_raw,       \* the entries of RAW
    nl_last_id,   \* self._last_id, the index of the last entry taken
    nl_published, \* the records appended to NORMALIZED
    nl_origin,    \* history: nl_origin[i] is the id of the entry of RAW from
                  \* which record i of nl_published was made
    nl_failed,    \* history: the ids of the entries of RAW whose XADD raised
    \* a filter or a stream correlator with its rules loaded from its table
    rl_kind,      \* "none" before the first load, then "filter" or "stream"
    rl_table,     \* history: the enabled rows of the rule table at the load
    rl_rules,     \* self._rules
    rl_st,        \* correlator: [z, last, alerts, emitted], the windows, the
                  \* last_alert_ts keys, the alert rows and the alerts decided
    rl_next,      \* correlator: the id of the next entry delivered
    rl_clock,     \* correlator: the last reading of time.time()
    rl_call,      \* history: the last apply_rules call or the last entry the
                  \* correlator processed
    e_call,       \* eval_expr: the call in progress, [ast, event, ret]
    \* _check_threshold_and_should_alert called with ids that may repeat
    z_st,         \* [z, last]: the window and the last_alert_ts key per key
    z_clock,      \* the last reading of time.time()
    z_seen,       \* history: z_seen[id] is the time of the last call made
                  \* with message id, 0 when there was none
    z_call,       \* history: the last call, [msg, now, count, alert, again];
                  \* again tells that msg had been given to a call before
    t_run         \* t_run[w]: how many times the process of the normalizer
                  \* or of the filter was started again

filterVars == <<f_rules, f_argEvent, f_argRules, f_event, f_result, f_decision>>

corrVars == <<s_rules, s_stream, s_pos, s_pel, s_acked, s_zset, s_last, s_clock,
              s_alerts, s_emitted, s_failed>>

normVars == <<n_pc, n_rules, n_raw, n_last_id, n_normalized, n_events, n_call>>

writerVars == <<w_log, w_pos, w_pel, w_events, w_clock, c_batch,
                w_acked, w_inserted, w_raised, w_replayed>>

procVars == <<x_pc, b_executed>>

ruleVars == <<r_store, r_rules, r_loop, r_applied, r_fails>>

curVars == <<k_last_id, k_filtered, k_req, k_seen, k_origin, k_dropped>>

groupVars == <<g_len, g_group, g_create, g_loaded, g_times>>

\* the variables of the stages that follow the pipeline's in this module
aggVars == <<a_raw, a_agg, a_pc, a_src, a_last>>

batchVars == <<bc_pc, bc_ticks, bc_log, bc_failed>>

raceVars ==
    <<q_next, q_clock, q_pc, q_loc, q_zset, q_last, q_ops, q_alerts, q_active>>

loadVars ==
    <<nl_pc, nl_table, nl_rules, nl_raw, nl_last_id, nl_published, nl_origin,
      nl_failed>>

\* the variables of the stages at the end of this module
ruleLoadVars ==
    <<rl_kind, rl_table, rl_rules, rl_st, rl_next, rl_clock, rl_call>>

redeliverVars == <<z_st, z_clock, z_seen, z_call>>

lastVars == <<loadVars, ruleLoadVars, e_call, redeliverVars, t_run>>

lateVars == <<ip_call, aggVars, batchVars, raceVars, lastVars>>

pipelineVars ==
    <<filterVars, corrVars, normVars, writerVars, s_times, p_call, procVars,
      ruleVars, curVars, groupVars>>

vars == <<filterVars, corrVars, normVars, writerVars, s_times, p_call,
          procVars, ruleVars, curVars, groupVars, lateVars>>

earlyVars == <<pipelineVars, ip_call, aggVars, batchVars, raceVars>>

\* the variables of the other stages
notFilter ==
    <<corrVars, normVars, writerVars, s_times, p_call, procVars, ruleVars,
      curVars, groupVars, lateVars>>
notCorr ==
    <<filterVars, normVars, writerVars, s_times, p_call, procVars, ruleVars,
      curVars, groupVars, lateVars>>
notNorm ==
    <<filterVars, corrVars, writerVars, s_times, p_call, procVars, ruleVars,
      groupVars, lateVars>>
notWriter ==
    <<filterVars, corrVars, normVars, s_times, p_call, procVars, ruleVars,
      curVars, groupVars, lateVars>>
notParse ==
    <<filterVars, corrVars, normVars, writerVars, s_times, procVars, ruleVars,
      curVars, groupVars, lateVars>>
notProc ==
    <<filterVars, corrVars, normVars, s_times, p_call, ruleVars, curVars, groupVars, lateVars>>
notRule ==
    <<filterVars, corrVars, normVars, writerVars, s_times, p_call, procVars,
      curVars, groupVars, lateVars>>
notGroup ==
    <<filterVars, corrVars, normVars, writerVars, s_times, p_call, b_executed,
      ruleVars, curVars, lateVars>>
notCursor ==
    <<filterVars, corrVars, writerVars, s_times, p_call, procVars, ruleVars,
      groupVars, lateVars>>

----------------------------------------------------------------------------
(* Python helpers *)

None == "<None>"

EmptyDict == [k \in {} |-> ""]

\* dict.get(k): None when the key is absent
Get(d, k) == IF k \in DOMAIN d THEN d[k] ELSE None

\* d[k] = v
Put(d, k, v) == [x \in (DOMAIN d) \cup {k} |-> IF x = k THEN v ELSE d[x]]

\* truthiness of an Optional[str]
Truthy(v) == v # None /\ v # ""

\* sep.join(list)
RECURSIVE Join(_, _)
Join(sep, list) ==
    IF list = <<>> THEN ""
    ELSE IF Len(list) = 1 THEN list[1]
    ELSE list[1] \o sep \o Join(sep, Tail(list))

Min(S) == CHOOSE m \in S : \A n \in S : m <= n
Max(S) == CHOOSE m \in S : \A n \in S : m >= n

----------------------------------------------------------------------------
(* Filter expressions: services/filter/filter_core.py                      *)

\* AST nodes: ("cmp", field, op, value), ("and", l, r), ("or", l, r);
\* expr_ast = None is the node NoAst.
NoAst == [t |-> "none"]
Cmp(field, op, val) == [t |-> "cmp", field |-> field, op |-> op, val |-> val]
And(l, r) == [t |-> "and", l |-> l, r |-> r]
Or(l, r) == [t |-> "or", l |-> l, r |-> r]

\* a lookup that returns str(value) of a value that is None
GetFieldValueStr(event, field) ==
    LET value == Get(event, field) IN IF value = None THEN "None" ELSE value

GetFieldValue(event, field) ==
    LET value == Get(event, field) IN IF value = None THEN "" ELSE value

\* eval_expr raises ValueError on a node that is none of cmp, and, or
RECURSIVE EvalRaises(_)
EvalRaises(ast) ==
    CASE ast.t = "none" -> FALSE
      [] ast.t = "cmp" -> FALSE
      [] ast.t \in {"and", "or"} -> EvalRaises(ast.l) \/ EvalRaises(ast.r)
      [] OTHER -> TRUE

RECURSIVE EvalExpr(_, _)
EvalExpr(ast, event) ==
    CASE ast.t = "none" -> FALSE
      [] ast.t = "cmp" ->
            LET actual == GetFieldValue(event, ast.field) IN
            IF ast.op = "==" THEN actual = ast.val
            ELSE IF ast.op = "!=" THEN actual # ast.val
            ELSE FALSE
      [] ast.t = "and" -> EvalExpr(ast.l, event) /\ EvalExpr(ast.r, event)
      [] ast.t = "or" -> EvalExpr(ast.l, event) \/ EvalExpr(ast.r, event)
      [] OTHER -> FALSE

----------------------------------------------------------------------------
(* The expression language: _tokenize and parse_expr of filter_core.py     *)
(* An expression text is the sequence of its characters.                   *)

\* str.isspace, on the characters of the model
SpaceChars == {" "}

\* [A-Za-z0-9_] and [A-Za-z0-9_.], on the characters of the model
NameStartChars == {"a", "b", "c", "d", "e", "f", "g", "h", "i", "j", "k", "l", "m", "n", "o", "p", "q", "r", "s", "t", "u", "v", "w", "x", "y", "z",
                   "0", "1", "2", "3", "4", "5", "6", "7", "8", "9", "_"}
NameChars == NameStartChars \cup {"."}

\* expr[i:j] of Python with i, j counted from 1: the characters i .. j - 1
RECURSIVE Slice(_, _, _)
Slice(expr, i, j) == IF i >= j THEN "" ELSE expr[i] \o Slice(expr, i + 1, j)

\* expr.startswith(two characters, i)
StartsWith(expr, i, c1, c2) ==
    i + 1 <= Len(expr) /\ expr[i] = c1 /\ expr[i + 1] = c2

\* while j < length and expr[j] != "'": j += 1
RECURSIVE ScanString(_, _)
ScanString(expr, j) ==
    IF j > Len(expr) \/ expr[j] = "'" THEN j ELSE ScanString(expr, j + 1)

\* while j < length and re.match(r"[A-Za-z0-9_.]", expr[j]): j += 1
RECURSIVE ScanName(_, _)
ScanName(expr, j) ==
    IF j > Len(expr) \/ expr[j] \notin NameChars THEN j ELSE ScanName(expr, j + 1)

\* AND, OR or NAME
WordType(value) ==
    IF value = "and" THEN "AND" ELSE IF value = "or" THEN "OR" ELSE "NAME"

\* _tokenize from character i on; a token is <<type, value>>
RECURSIVE Tokenize(_, _, _)
Tokenize(expr, i, tokens) ==
    IF i > Len(expr) THEN [raises |-> FALSE, tokens |-> tokens]
    ELSE IF expr[i] \in SpaceChars THEN Tokenize(expr, i + 1, tokens)
    ELSE IF StartsWith(expr, i, "=", "=")
    THEN Tokenize(expr, i + 2, Append(tokens, <<"OP", "==">>))
    ELSE IF StartsWith(expr, i, "!", "=")
    THEN Tokenize(expr, i + 2, Append(tokens, <<"OP", "!=">>))
    ELSE IF expr[i] = "'"
    THEN LET j == ScanString(expr, i + 1)
         IN  IF j > Len(expr)
             THEN [raises |-> TRUE, tokens |-> <<>>]   \* unterminated string
             ELSE Tokenize(expr, j + 1,
                           Append(tokens, <<"STRING", Slice(expr, i + 1, j)>>))
    ELSE IF expr[i] \in NameStartChars
    THEN LET j == ScanName(expr, i + 1)
             value == Slice(expr, i, j)
         IN  Tokenize(expr, j, Append(tokens, <<WordType(value), value>>))
    ELSE [raises |-> TRUE, tokens |-> <<>>]            \* unexpected character

\* parse_cmp raises, pos counted from 1
ParseCmpRaises(tokens, pos) ==
    \/ pos + 2 > Len(tokens)
    \/ tokens[pos][1] # "NAME"
    \/ tokens[pos + 1][1] # "OP"
    \/ tokens[pos + 1][2] \notin {"==", "!="}
    \/ tokens[pos + 2][1] # "STRING"

\* parse_cmp
ParseCmp(tokens, pos) ==
    Cmp(tokens[pos][2], tokens[pos + 1][2], tokens[pos + 2][2])

\* a loop that nests to the right: left op (the rest of the chain)
RECURSIVE ParseLoopRight(_, _, _)
ParseLoopRight(tokens, pos, left) ==
    IF pos > Len(tokens) THEN [raises |-> FALSE, ast |-> left, pos |-> pos]
    ELSE IF tokens[pos][1] \in {"AND", "OR"}
    THEN IF ParseCmpRaises(tokens, pos + 1)
         THEN [raises |-> TRUE, ast |-> NoAst, pos |-> pos]
         ELSE LET rest == ParseLoopRight(tokens, pos + 4, ParseCmp(tokens, pos + 1))
              IN  IF rest.raises THEN rest
                  ELSE [raises |-> FALSE,
                        ast |-> IF tokens[pos][1] = "AND"
                                THEN And(left, rest.ast) ELSE Or(left, rest.ast),
                        pos |-> rest.pos]
    ELSE [raises |-> FALSE, ast |-> left, pos |-> pos]

\* parse_expr_inner, the while loop: left is the tree built so far
RECURSIVE ParseLoop(_, _, _)
ParseLoop(tokens, pos, left) ==
    IF pos > Len(tokens) THEN [raises |-> FALSE, ast |-> left, pos |-> pos]
    ELSE IF tokens[pos][1] \in {"AND", "OR"}
    THEN IF ParseCmpRaises(tokens, pos + 1)
         THEN [raises |-> TRUE, ast |-> NoAst, pos |-> pos]
         ELSE ParseLoop(tokens, pos + 4,
                        IF tokens[pos][1] = "AND"
                        THEN And(left, ParseCmp(tokens, pos + 1))
                        ELSE Or(left, ParseCmp(tokens, pos + 1)))
    ELSE [raises |-> FALSE, ast |-> left, pos |-> pos]    \* break

\* parse_expr_inner
ParseInner(tokens) ==
    IF ParseCmpRaises(tokens, 1)
    THEN [raises |-> TRUE, ast |-> NoAst, pos |-> 1]
    ELSE ParseLoop(tokens, 4, ParseCmp(tokens, 1))

\* parse_expr without the check that every token was used
ParseExprNoEndCheck(expr) ==
    LET tk == Tokenize(expr, 1, <<>>)
    IN  IF tk.raises \/ tk.tokens = <<>> THEN [raises |-> TRUE, ast |-> NoAst]
        ELSE LET r == ParseInner(tk.tokens)
             IN  IF r.raises THEN [raises |-> TRUE, ast |-> NoAst]
                 ELSE [raises |-> FALSE, ast |-> r.ast]

\* parse_expr
ParseExpr(expr) ==
    LET tk == Tokenize(expr, 1, <<>>)
    IN  IF tk.raises THEN [raises |-> TRUE, ast |-> NoAst]
        ELSE IF tk.tokens = <<>> THEN [raises |-> TRUE, ast |-> NoAst]
        ELSE LET r == ParseInner(tk.tokens)
             IN  IF r.raises THEN [raises |-> TRUE, ast |-> NoAst]
                 ELSE IF r.pos # Len(tk.tokens) + 1
                 THEN [raises |-> TRUE, ast |-> NoAst]
                 ELSE [raises |-> FALSE, ast |-> r.ast]

\* ---- The texts given to parse_expr

\* comparisons, and the operators between them
TextA == <<"a", " ", "=", "=", " ", "'", "1", "'">>
TextBC == <<"b", ".", "c", "=", "=", "'", "1", "'">>
TextC == <<"c", " ", "!", "=", " ", "'", "'">>
TextAnd == <<" ", "a", "n", "d", " ">>
TextOr == <<" ", "o", "r", " ">>

CmpTexts == {TextA, TextBC, TextC}
OpTexts == {TextAnd, TextOr}

\* what can follow the last comparison of a text
TailTexts ==
    { <<>>,
      <<" ", "a", "n", "d">>,
      <<" ", "o", "r", " ", "c">>,
      <<" ", "c">>,
      <<" ", "'", "1", "'">>,
      <<" ", "'", "1">>,
      <<" ", "=", "=">> }

\* the longest chain of comparisons, and the longest text of ShortTexts
MaxCmps == 3
MaxChars == 5

\* c[1] o[1] c[2] ... o[n-1] c[n]
RECURSIVE ChainText(_, _, _)
ChainText(c, o, n) ==
    IF n = 1 THEN c[1] ELSE ChainText(c, o, n - 1) \o o[n - 1] \o c[n]

ChainTexts ==
    UNION { { ChainText(c, o, n) \o tail :
                c \in [1..n -> CmpTexts], o \in [1..(n - 1) -> OpTexts],
                tail \in TailTexts } : n \in 1..MaxCmps }

\* every text of at most MaxChars characters over a small alphabet
ShortChars == {"a", "=", "!", "'", " "}
ShortTexts == UNION { [1..n -> ShortChars] : n \in 0..MaxChars }

ScenarioText ==
    <<
       "e", "v", "e", "n", "t", ".", "p", "r", "o", "v", "i", "d",
       "e", "r", " ", "=", "=", " ", "'", "h", "t", "t", "p", "_",
       "j", "s", "o", "n", "'", " ", "a", "n", "d", " ", "e", "v",
       "e", "n", "t", ".", "c", "a", "t", "e", "g", "o", "r", "y",
       " ", "=", "=", " ", "'", "t", "e", "s", "t", "'" >>

ExprTexts == ChainTexts \cup ShortTexts \cup {ScenarioText}

ParseInit == p_call = [expr |-> <<>>, ret |-> "nocall", ast |-> NoAst]

\* a call parse_expr(expr); load_filter_rules makes one for each row with a
\* non-empty expr
P_ParseExpr ==
    /\ p_call.ret = "nocall"
    /\ \E expr \in ExprTexts :
          LET r == ParseExpr(expr)
          IN  p_call' = [expr |-> expr,
                         ret |-> IF r.raises THEN "raise" ELSE "ast",
                         ast |-> r.ast]
    /\ UNCHANGED notParse

\* the caller is done with the result (the loader: rules.append, next row)
P_NextRow ==
    /\ p_call.ret # "nocall"
    /\ p_call' = [expr |-> <<>>, ret |-> "nocall", ast |-> NoAst]
    /\ UNCHANGED notParse

ParseNext == P_ParseExpr \/ P_NextRow

----------------------------------------------------------------------------
(* Filter decision: FilterWorker.apply_rules                                *)

\* The loop without the break after tags.extend(rule.tags)
RECURSIVE ApplyLoopNoBreak(_, _, _, _)
ApplyLoopNoBreak(rules, event, i, tags) ==
    IF i > Len(rules) THEN [ret |-> "end", tags |-> tags]
    ELSE LET rule == rules[i] IN
         IF rule.expr_ast = NoAst THEN ApplyLoopNoBreak(rules, event, i + 1, tags)
         ELSE IF EvalRaises(rule.expr_ast) THEN ApplyLoopNoBreak(rules, event, i + 1, tags)
         ELSE IF ~EvalExpr(rule.expr_ast, event) THEN ApplyLoopNoBreak(rules, event, i + 1, tags)
         ELSE IF rule.action = "drop" THEN [ret |-> "drop", tags |-> tags]
         ELSE IF rule.action = "tag"
         THEN ApplyLoopNoBreak(rules, event, i + 1, tags \o rule.tags)
         ELSE IF rule.action = "pass" THEN [ret |-> "end", tags |-> tags]
         ELSE ApplyLoopNoBreak(rules, event, i + 1, tags)

\* The loop without the break at a matching pass rule
RECURSIVE ApplyLoopPassContinues(_, _, _, _)
ApplyLoopPassContinues(rules, event, i, tags) ==
    IF i > Len(rules) THEN [ret |-> "end", tags |-> tags]
    ELSE LET rule == rules[i] IN
         IF rule.expr_ast = NoAst THEN ApplyLoopPassContinues(rules, event, i + 1, tags)
         ELSE IF EvalRaises(rule.expr_ast)
         THEN ApplyLoopPassContinues(rules, event, i + 1, tags)
         ELSE IF ~EvalExpr(rule.expr_ast, event)
         THEN ApplyLoopPassContinues(rules, event, i + 1, tags)
         ELSE IF rule.action = "drop" THEN [ret |-> "drop", tags |-> tags]
         ELSE IF rule.action = "tag" THEN [ret |-> "end", tags |-> tags \o rule.tags]
         ELSE ApplyLoopPassContinues(rules, event, i + 1, tags)

\* The loop over self._rules. ret = "drop" is the early return; ret = "end"
\* is the loop's end (exhausted or break), with the tags collected.
RECURSIVE ApplyLoop(_, _, _, _)
ApplyLoop(rules, event, i, tags) ==
    IF i > Len(rules) THEN [ret |-> "end", tags |-> tags]
    ELSE LET rule == rules[i] IN
         IF rule.expr_ast = NoAst THEN ApplyLoop(rules, event, i + 1, tags)
         ELSE IF EvalRaises(rule.expr_ast) THEN ApplyLoop(rules, event, i + 1, tags)
         ELSE IF ~EvalExpr(rule.expr_ast, event) THEN ApplyLoop(rules, event, i + 1, tags)
         ELSE IF rule.action = "drop" THEN [ret |-> "drop", tags |-> tags]
         ELSE IF rule.action = "tag" THEN [ret |-> "end", tags |-> tags \o rule.tags]
         ELSE IF rule.action = "pass" THEN [ret |-> "end", tags |-> tags]
         ELSE ApplyLoop(rules, event, i + 1, tags)

\* result = event: the write of the tags would go to the caller's dict
AliasDictRef(ref) == ref

\* result = dict(event): a new dict object, distinct from the argument
NewDictRef(ref) == "result"

\* The call on the dict object "event". Returns the decision, the returned
\* dict and the content of the caller's dict when the call returns.
ApplyRules(rules, event) ==
    LET ref == NewDictRef("event")
        h0 == [o \in {"event", ref} |-> event]
        loop == ApplyLoop(rules, h0["event"], 1, <<>>)
        existing == Get(h0[ref], "tags")
        joined == IF Truthy(existing)
                  THEN existing \o "," \o Join(",", loop.tags)
                  ELSE Join(",", loop.tags)
        h1 == [h0 EXCEPT ![ref] = Put(h0[ref], "tags", joined)]
    IN  IF loop.ret = "drop"
        THEN [decision |-> "drop", result |-> h0[ref], input |-> h0["event"]]
        ELSE IF loop.tags # <<>>
        THEN [decision |-> "tag", result |-> h1[ref], input |-> h1["event"]]
        ELSE [decision |-> "pass", result |-> h0[ref], input |-> h0["event"]]

\* Rule lists as load_filter_rules returns them: ORDER BY priority, id.
FilterRule(id, action, tags, ast) ==
    [id |-> id, priority |-> id, action |-> action, tags |-> tags, expr_ast |-> ast]

X1 == Cmp("x", "==", "1")

FilterRuleBodies ==
    { [action |-> "drop", tags |-> <<>>, ast |-> X1],
      [action |-> "tag", tags |-> <<"a">>, ast |-> X1],
      [action |-> "tag", tags |-> <<"b", "c">>, ast |-> Cmp("x", "!=", "2")],
      [action |-> "tag", tags |-> <<>>, ast |-> X1],
      [action |-> "pass", tags |-> <<>>, ast |-> Or(X1, Cmp("x", "==", "2"))],
      [action |-> "alert", tags |-> <<>>, ast |-> X1],
      [action |-> "drop", tags |-> <<>>, ast |-> NoAst] }

MaxRules == 2

FilterRuleLists ==
    UNION { { [i \in 1..n |-> FilterRule(i, b[i].action, b[i].tags, b[i].ast)] :
                b \in [1..n -> FilterRuleBodies] } : n \in 0..MaxRules }

FilterEvents ==
    { EmptyDict,
      [x |-> "1"],
      [x |-> "2"],
      [x |-> "1", tags |-> "t0"],
      [x |-> "1", tags |-> ""],
      [x |-> "3", tags |-> "t0"] }

FilterInit ==
    /\ f_rules = <<>>
    /\ f_argEvent = EmptyDict
    /\ f_argRules = <<>>
    /\ f_event = EmptyDict
    /\ f_result = EmptyDict
    /\ f_decision = "none"

\* FilterWorker.init / _reload_rules_periodically: self._rules =
\* load_filter_rules(). The reload task runs at the consume loop's awaits,
\* between two apply_rules calls: the finished iteration's locals are gone.
F_Reload ==
    /\ \E rs \in FilterRuleLists : f_rules' = rs
    /\ f_argEvent' = EmptyDict
    /\ f_argRules' = <<>>
    /\ f_event' = EmptyDict
    /\ f_result' = EmptyDict
    /\ f_decision' = "none"
    /\ UNCHANGED notFilter

\* decision, final_event = self.apply_rules(event)
F_ApplyRules ==
    \E ev \in FilterEvents :
        LET r == ApplyRules(f_rules, ev) IN
        /\ f_argEvent' = ev
        /\ f_argRules' = f_rules
        /\ f_event' = r.input
        /\ f_result' = r.result
        /\ f_decision' = r.decision
        /\ UNCHANGED f_rules
        /\ UNCHANGED notFilter

FilterNext == F_Reload \/ F_ApplyRules

----------------------------------------------------------------------------
(* Stream correlator: services/stream_corr/worker.py, rules.py              *)

StreamCorrRule(id, pattern, window_s, threshold, ast, entity_field) ==
    [id |-> id, pattern |-> pattern, window_s |-> window_s, threshold |-> threshold,
     expr_ast |-> ast, entity_field |-> entity_field]

IsLogin == Cmp("type", "==", "login")

\* Two versions of siem.correlation_rules_stream (enabled rows, ORDER BY id)
CorrRuleLists ==
    { <<StreamCorrRule(1, "threshold", 2, 2, IsLogin, "user")>>,
      <<StreamCorrRule(1, "threshold", 1, 1, IsLogin, "user"),
        StreamCorrRule(2, "threshold", 2, 1, NoAst, "user"),
        StreamCorrRule(3, "sequence", 2, 1, IsLogin, "user")>> }

CorrRuleIds == {1, 2, 3}

CorrEvents ==
    { [type |-> "login", user |-> "u1"],
      [type |-> "login", user |-> ""],
      [type |-> "other"] }

CorrEntities == {"u1", "u2"}

CorrKeys == CorrRuleIds \X CorrEntities

MaxMsgs == 3
MaxTime == 3
CorrBatchSize == 2
MaxBacklog == 3

\* redis GET of a key that does not exist
NoKey == -1

\* a matches_rule for which a rule without expression matches every event
MatchesRuleNullMatches(rule, event) ==
    IF rule.expr_ast = NoAst THEN TRUE
    ELSE IF EvalRaises(rule.expr_ast) THEN FALSE
    ELSE EvalExpr(rule.expr_ast, event)

\* matches_rule
MatchesRule(rule, event) ==
    IF rule.expr_ast = NoAst THEN FALSE
    ELSE IF EvalRaises(rule.expr_ast) THEN FALSE
    ELSE EvalExpr(rule.expr_ast, event)

\* a ZADD that keeps the old score of a member beside the new one
ZAddBeside(zs, member, score) == zs \cup { <<member, score>> }

\* ZADD key {member: score}: a member already in the set gets the new score
ZAdd(zs, member, score) == { p \in zs : p[1] # member } \cup { <<member, score>> }

\* an eviction that evicts nothing
ZRemRangeNothing(zs, max) == zs

\* an eviction that keeps the member at max
ZRemRangeBelowScore(zs, max) == { p \in zs : ~(p[2] < max) }

\* ZREMRANGEBYSCORE key -inf max: both ends inclusive
ZRemRangeByScore(zs, max) == { p \in zs : ~(p[2] <= max) }

\* float(last_alert_raw) if last_alert_raw is not None else 0.0
LastAlertTs(raw) == IF raw = NoKey THEN 0 ELSE raw

\* a suppression window one second short
SuppressedShort(last_alert_ts, now, rule) ==
    last_alert_ts # 0 /\ (now - last_alert_ts) < rule.window_s - 1

\* if last_alert_ts and (now - last_alert_ts) < rule.window_s: return False
Suppressed(last_alert_ts, now, rule) ==
    last_alert_ts # 0 /\ (now - last_alert_ts) < rule.window_s

\* _check_threshold_and_should_alert on the broker state st = [z, last]:
\* the broker state after the call, the count read, and the returned bool
\* _check_threshold_and_should_alert with last_alert_ts also written by a
\* suppressed match
CheckThresholdExtending(st, rule, entity_key, msg_id, now) ==
    LET key == <<rule.id, entity_key>>
        window_start == now - rule.window_s
        zs == ZRemRangeByScore(ZAdd(st.z[key], msg_id, now), window_start)
        current_count == Cardinality(zs)
        last_alert_ts == LastAlertTs(st.last[key])
        z1 == [st.z EXCEPT ![key] = zs]
    IN  IF current_count < rule.threshold
        THEN [z |-> z1, last |-> st.last, count |-> current_count, alert |-> FALSE]
        ELSE IF Suppressed(last_alert_ts, now, rule)
        THEN [z |-> z1, last |-> [st.last EXCEPT ![key] = now],
              count |-> current_count, alert |-> FALSE]
        ELSE [z |-> z1, last |-> [st.last EXCEPT ![key] = now],
              count |-> current_count, alert |-> TRUE]

CheckThresholdAndShouldAlert(st, rule, entity_key, msg_id, now) ==
    LET key == <<rule.id, entity_key>>
        window_start == now - rule.window_s
        zs == ZRemRangeByScore(ZAdd(st.z[key], msg_id, now), window_start)
        current_count == Cardinality(zs)
        last_alert_ts == LastAlertTs(st.last[key])
        z1 == [st.z EXCEPT ![key] = zs]
    IN  IF current_count < rule.threshold
        THEN [z |-> z1, last |-> st.last, count |-> current_count, alert |-> FALSE]
        ELSE IF Suppressed(last_alert_ts, now, rule)
        THEN [z |-> z1, last |-> st.last, count |-> current_count, alert |-> FALSE]
        ELSE [z |-> z1, last |-> [st.last EXCEPT ![key] = now],
              count |-> current_count, alert |-> TRUE]

\* _build_alert_row, without alert_id (a fresh uuid4) and the rule's texts
BuildAlertRow(rule, entity_key, now) ==
    [ts |-> now, rule_id |-> rule.id, ts_first |-> now - rule.window_s, ts_last |-> now,
     window_s |-> rule.window_s, entity_key |-> entity_key, hits |-> rule.threshold,
     source |-> "stream", status |-> "open"]

\* str(event.get(rule.entity_field) or "")
EntityKey(rule, event) ==
    LET v == Get(event, rule.entity_field) IN IF Truthy(v) THEN v ELSE ""

\* run, the body of "for rule in self._rules" for one message; acc = [z, last,
\* alerts (alerts_to_insert), emitted]
CorrRuleStep(acc, rule, msg_id, event, now) ==
    IF rule.pattern # "threshold" THEN acc
    ELSE IF ~MatchesRule(rule, event) THEN acc
    ELSE IF EntityKey(rule, event) = "" THEN acc
    ELSE LET entity_key == EntityKey(rule, event)
             r == CheckThresholdAndShouldAlert(acc, rule, entity_key, msg_id, now)
         IN  IF r.alert
             THEN [z |-> r.z, last |-> r.last,
                   alerts |-> Append(acc.alerts, BuildAlertRow(rule, entity_key, now)),
                   emitted |-> acc.emitted \cup
                       { [rule_id |-> rule.id, entity_key |-> entity_key, t |-> now,
                          window_s |-> rule.window_s, count |-> r.count] }]
             ELSE [z |-> r.z, last |-> r.last, alerts |-> acc.alerts,
                   emitted |-> acc.emitted]

RECURSIVE CorrRules(_, _, _, _, _, _)
CorrRules(acc, rules, j, msg_id, event, now) ==
    IF j > Len(rules) THEN acc
    ELSE CorrRules(CorrRuleStep(acc, rules[j], msg_id, event, now),
                   rules, j + 1, msg_id, event, now)

\* run, "for msg_id, fields in messages": messages holds the entries read,
\* the first of them with id first
RECURSIVE CorrMessages(_, _, _, _, _)
CorrMessages(acc, rules, messages, first, now) ==
    IF messages = <<>> THEN acc
    ELSE CorrMessages(CorrRules(acc, rules, 1, first, Head(messages), now),
                      rules, Tail(messages), first + 1, now)

CorrInit ==
    /\ s_rules = <<>>
    /\ s_stream = <<>>
    /\ s_pos = 0
    /\ s_pel = {}
    /\ s_acked = {}
    /\ s_zset = [k \in CorrKeys |-> {}]
    /\ s_last = [k \in CorrKeys |-> NoKey]
    /\ s_clock = 1
    /\ s_alerts = <<>>
    /\ s_emitted = {}
    /\ s_failed = {}

\* the filter appends an entry to FILTERED
S_Append ==
    /\ s_pos + Len(s_stream) < MaxMsgs
    /\ Len(s_stream) < MaxBacklog
    /\ \E ev \in CorrEvents : s_stream' = Append(s_stream, ev)
    /\ UNCHANGED <<s_rules, s_pos, s_pel, s_acked, s_zset, s_last, s_clock, s_alerts,
                   s_emitted, s_failed>>
    /\ UNCHANGED notCorr

\* _reload_rules_periodically, a load that succeeded (a failed one changes nothing)
S_Reload ==
    /\ \E rs \in CorrRuleLists : s_rules' = rs
    /\ UNCHANGED <<s_stream, s_pos, s_pel, s_acked, s_zset, s_last, s_clock, s_alerts,
                   s_emitted, s_failed>>
    /\ UNCHANGED notCorr

\* One iteration of run that read entries: XREADGROUP '>' delivers the next
\* entries (at most batch_size) and makes them pending; the rules are applied
\* with now = time.time(); the alerts are inserted (the insert succeeds or
\* raises); then all the ids read are acknowledged (the XACK succeeds or raises).
\* No await separates the read from the XACK, so the reload task runs before
\* or after the whole iteration.
S_Iteration(now, insertOk, ackOk) ==
    /\ s_stream # <<>>
    /\ LET n == Min({Len(s_stream), CorrBatchSize})
           processed_ids == (s_pos + 1)..(s_pos + n)
           acc == CorrMessages([z |-> s_zset, last |-> s_last, alerts |-> <<>>,
                                emitted |-> s_emitted],
                               s_rules, SubSeq(s_stream, 1, n), s_pos + 1, now)
       IN  \* no insert is attempted when there is no alert
           /\ acc.alerts = <<>> => insertOk
           /\ s_clock' = now
           /\ s_pos' = s_pos + n
           /\ s_stream' = SubSeq(s_stream, n + 1, Len(s_stream))
           /\ s_zset' = acc.z
           /\ s_last' = acc.last
           /\ s_emitted' = acc.emitted
           /\ s_alerts' = IF insertOk THEN s_alerts \o acc.alerts ELSE s_alerts
           /\ s_acked' = IF ackOk THEN s_acked \cup processed_ids ELSE s_acked
           /\ s_pel' = IF ackOk THEN s_pel ELSE s_pel \cup processed_ids
           /\ s_failed' = IF acc.alerts # <<>> /\ ~insertOk
                          THEN s_failed \cup processed_ids ELSE s_failed
    /\ UNCHANGED s_rules
    /\ UNCHANGED <<filterVars, normVars, writerVars, p_call, procVars, ruleVars,
                   curVars, groupVars, lateVars>>

\* an iteration at a reading of the clock not before the last one
S_Batch ==
    /\ \E now \in s_clock..MaxTime, insertOk \in BOOLEAN, ackOk \in BOOLEAN :
           S_Iteration(now, insertOk, ackOk)
    /\ UNCHANGED s_times

CorrNext == S_Append \/ S_Reload \/ S_Batch

\* ---- The correlator fed events of two entities, events without entity and
\* events that match no rule, by a broker and a column store that answer.

FrameEvents ==
    { [type |-> "login", user |-> "u1"],
      [type |-> "login", user |-> "u2"],
      [type |-> "login", user |-> ""],
      [type |-> "login"],
      [type |-> "other", user |-> "u1"] }

\* the filter appends an entry to FILTERED
Sf_Append ==
    /\ s_pos + Len(s_stream) < MaxMsgs
    /\ Len(s_stream) < CorrBatchSize
    /\ \E ev \in FrameEvents : s_stream' = Append(s_stream, ev)
    /\ UNCHANGED <<s_rules, s_pos, s_pel, s_acked, s_zset, s_last, s_clock, s_alerts,
                   s_emitted, s_failed>>
    /\ UNCHANGED notCorr

\* an iteration of run
Sf_Batch ==
    /\ \E now \in s_clock..MaxTime : S_Iteration(now, TRUE, TRUE)
    /\ UNCHANGED s_times

FrameNext == Sf_Append \/ S_Reload \/ Sf_Batch

\* ---- Replicas of the correlator: consumers of one group, each in its own
\* process, fed matching entries of one entity under one rule.  A replica
\* reads the clock when it has taken an entry, sends the pipeline (ZADD,
\* ZREMRANGEBYSCORE, ZCARD, GET), and then decides and, for an alert, sends
\* the SET of last_alert.

Replicas == {"r1", "r2"}
MaxQMsgs == 3
MaxQTime == 3

\* siem.correlation_rules_stream: threshold 1 in a window of 2 s
RaceRule == StreamCorrRule(1, "threshold", 2, 1, IsLogin, "user")

NoLocals == [msg |-> 0, now |-> 0, count |-> 0, last |-> NoKey, read_at |-> 0]

notRace == <<pipelineVars, ip_call, aggVars, batchVars, lastVars>>

RaceInit ==
    /\ q_next = 1
    /\ q_clock = 1
    /\ q_pc = [r \in Replicas |-> "idle"]
    /\ q_loc = [r \in Replicas |-> NoLocals]
    /\ q_zset = {}
    /\ q_last = NoKey
    /\ q_ops = 0
    /\ q_alerts = {}
    /\ q_active = {}

\* XREADGROUP '>' delivers the next entry to replica r; now = time.time()
Q_Take(r, now) ==
    /\ q_pc[r] = "idle"
    /\ q_next <= MaxQMsgs
    /\ q_next' = q_next + 1
    /\ q_clock' = now
    /\ q_pc' = [q_pc EXCEPT ![r] = "taken"]
    /\ q_loc' = [q_loc EXCEPT ![r] = [NoLocals EXCEPT !.msg = q_next, !.now = now]]
    /\ q_active' = q_active \cup {r}
    /\ UNCHANGED <<q_zset, q_last, q_ops, q_alerts>>
    /\ UNCHANGED notRace

\* _check_threshold_and_should_alert, pipe.execute(): the four commands in
\* one transaction of the broker
Q_Pipeline(r) ==
    /\ q_pc[r] = "taken"
    /\ LET now == q_loc[r].now
           zs == ZRemRangeByScore(ZAdd(q_zset, q_loc[r].msg, now),
                                  now - RaceRule.window_s)
       IN  /\ q_zset' = zs
           /\ q_loc' = [q_loc EXCEPT ![r].count = Cardinality(zs),
                                     ![r].last = q_last,
                                     ![r].read_at = q_ops + 1]
    /\ q_ops' = q_ops + 1
    /\ q_pc' = [q_pc EXCEPT ![r] = "read"]
    /\ UNCHANGED <<q_next, q_clock, q_last, q_alerts, q_active>>
    /\ UNCHANGED notRace

\* a write of last_alert that leaves the key as it is
SetLastAlertNot(last, now) == last

\* redis.set(last_alert_key, str(now))
SetLastAlert(last, now) == now

\* _check_threshold_and_should_alert from "current_count = ..." on; the alert
\* is built by the caller
Q_Decide(r) ==
    /\ q_pc[r] = "read"
    /\ LET now == q_loc[r].now
           alert == /\ ~(q_loc[r].count < RaceRule.threshold)
                    /\ ~Suppressed(LastAlertTs(q_loc[r].last), now, RaceRule)
       IN  IF alert
           THEN /\ q_last' = SetLastAlert(q_last, now)
                /\ q_ops' = q_ops + 1
                /\ q_alerts' = q_alerts \cup
                      { [replica |-> r, t |-> now, read_at |-> q_loc[r].read_at,
                         write_at |-> q_ops + 1] }
           ELSE UNCHANGED <<q_last, q_ops, q_alerts>>
    /\ q_pc' = [q_pc EXCEPT ![r] = "idle"]
    /\ q_loc' = [q_loc EXCEPT ![r] = NoLocals]
    /\ UNCHANGED <<q_next, q_clock, q_zset, q_active>>
    /\ UNCHANGED notRace

Q_Replica ==
    \E r \in Replicas :
        \/ \E now \in q_clock..MaxQTime : Q_Take(r, now)
        \/ Q_Pipeline(r)
        \/ Q_Decide(r)

RaceNext == Q_Replica

\* ---- The correlator with one threshold rule, fed one entry per iteration
\* by a broker and a column store that answer.

\* time.time() when the first entry is read, and the seconds after it at which
\* an iteration can run
WindowT0 == 1000
WindowOffsets == {10 * k : k \in 0..10}
\* entries fed
MaxWindowMsgs == 7

\* siem.correlation_rules_stream: threshold 3 in a window of 60 s
WindowRules == <<StreamCorrRule(1, "threshold", 60, 3, IsLogin, "user")>>

WindowInit == s_times = <<>>

\* init: load_stream_rules
Sw_Init ==
    /\ s_rules = <<>>
    /\ s_rules' = WindowRules
    /\ UNCHANGED <<s_stream, s_pos, s_pel, s_acked, s_zset, s_last, s_clock, s_alerts,
                   s_emitted, s_failed>>
    /\ UNCHANGED notCorr

\* the filter appends a matching entry of one entity once the last is read
Sw_Append ==
    /\ s_rules # <<>>
    /\ s_stream = <<>>
    /\ s_pos < MaxWindowMsgs
    /\ s_stream' = <<[type |-> "login", user |-> "u1"]>>
    /\ UNCHANGED <<s_rules, s_pos, s_pel, s_acked, s_zset, s_last, s_clock, s_alerts,
                   s_emitted, s_failed>>
    /\ UNCHANGED notCorr

\* an iteration of run on the one entry
Sw_Batch ==
    \E t \in WindowOffsets :
        /\ WindowT0 + t >= s_clock
        /\ S_Iteration(WindowT0 + t, TRUE, TRUE)
        /\ s_times' = Append(s_times, WindowT0 + t)

WindowNext == Sw_Init \/ Sw_Append \/ Sw_Batch

----------------------------------------------------------------------------
(* Normalizer: services/normalizer/normalizer_core.py, worker.py            *)

\* A compiled mapping expression, by what its search(raw_event) does: the
\* value of a top-level field (null when absent), a literal, or an error
FieldExpr(name) == [k |-> "field", name |-> name, v |-> ""]
LiteralExpr(v) == [k |-> "literal", name |-> "", v |-> v]
RaisingExpr == [k |-> "raise", name |-> "", v |-> ""]

SearchRaises(expr) == expr.k = "raise"

Search(expr, raw_event) ==
    IF expr.k = "field" THEN Get(raw_event, expr.name) ELSE expr.v

NormalizerRule(id, source_type, mapping) ==
    [id |-> id, priority |-> id, source_type |-> source_type,
     event_matcher_expr |-> "", compiled_mapping |-> mapping]

\* Versions of siem.normalizer_rules (enabled rows, ORDER BY priority, id)
NormRuleLists ==
    { <<>>,
      <<NormalizerRule(1, "http_json", EmptyDict)>>,
      <<NormalizerRule(1, "http_json",
            [p \in {"event.provider", "event.original", "user.name"} |->
                IF p = "event.provider" THEN FieldExpr("source_type")
                ELSE IF p = "event.original" THEN FieldExpr("message")
                ELSE FieldExpr("user")])>>,
      <<NormalizerRule(1, "syslog",
            [p \in {"event.provider", "event.original", "event.category"} |->
                IF p = "event.provider" THEN LiteralExpr("")
                ELSE IF p = "event.original" THEN RaisingExpr
                ELSE LiteralExpr("auth")]),
        NormalizerRule(2, "http_json",
            [p \in {"event.provider"} |-> LiteralExpr("second")])>> }

\* Entries of RAW. The ingress writes the first four: a syslog line, and the
\* HTTP payloads {"user": "bob"}, {"source": "h", "source_type": "", "message":
\* "x"} and {"message": ""}, to which it adds source and source_type when
\* absent. The last one is the raw event of the specification's scenario 1.
RawEvents ==
    { [source |-> "h", source_type |-> "syslog", message |-> "x"],
      [user |-> "bob", source |-> "h", source_type |-> "http_json"],
      [source |-> "h", source_type |-> "", message |-> "x"],
      [message |-> "", source |-> "h", source_type |-> "http_json"],
      [source_type |-> "http_json", message |-> "x"] }

\* the order of the keys in the raw event dicts that have no message
RawKeyOrder == <<"user", "source", "source_type", "message">>

RECURSIVE PyReprItems(_, _)
PyReprItems(d, i) ==
    IF i > Len(RawKeyOrder) THEN <<>>
    ELSE (IF RawKeyOrder[i] \in DOMAIN d
          THEN <<"'" \o RawKeyOrder[i] \o "': '" \o d[RawKeyOrder[i]] \o "'">>
          ELSE <<>>) \o PyReprItems(d, i + 1)

\* str(raw_event) of a dict of str
PyRepr(d) == "{" \o Join(", ", PyReprItems(d, 1)) \o "}"

\* the mapping loop with null results left out of the UEM dict
ApplyMappingSkipNull(mapping, raw_event) ==
    [f \in { g \in DOMAIN mapping :
               ~SearchRaises(mapping[g]) /\ Search(mapping[g], raw_event) # None } |->
        Search(mapping[f], raw_event)]

\* apply_rules, the loop over rule.compiled_mapping.items()
ApplyMapping(mapping, raw_event) ==
    [f \in DOMAIN mapping |->
        IF SearchRaises(mapping[f]) THEN None ELSE Search(mapping[f], raw_event)]

\* raw_event.get(key, "") or ""
GetOrEmpty(d, key) == IF Truthy(Get(d, key)) THEN Get(d, key) ELSE ""

\* apply_rules, the defaults of event.provider and event.original
ApplyDefaults(uem, raw_event) ==
    LET u1 == IF ~Truthy(Get(uem, "event.provider"))
              THEN Put(uem, "event.provider", GetOrEmpty(raw_event, "source_type"))
              ELSE uem
    IN  IF ~Truthy(Get(u1, "event.original"))
        THEN IF "message" \in DOMAIN raw_event
             THEN Put(u1, "event.original", GetOrEmpty(raw_event, "message"))
             ELSE Put(u1, "event.original", PyRepr(raw_event))
        ELSE u1

\* an apply_rules that takes the first rule of the event's source_type
NormApplyRulesBySourceType(rules, raw_event) ==
    LET own == {i \in 1..Len(rules) :
                   rules[i].source_type = Get(raw_event, "source_type")}
    IN  IF own = {} THEN [ret |-> "none", uem |-> EmptyDict]
        ELSE [ret |-> "uem",
              uem |-> ApplyDefaults(
                          ApplyMapping(rules[Min(own)].compiled_mapping, raw_event),
                          raw_event)]

\* apply_rules(rules, raw_event); ret = "none" is the return of None
NormApplyRules(rules, raw_event) ==
    IF rules = <<>> THEN [ret |-> "none", uem |-> EmptyDict]
    ELSE [ret |-> "uem",
          uem |-> ApplyDefaults(ApplyMapping(rules[1].compiled_mapping, raw_event),
                                raw_event)]

\* {k: "" if v is None else str(v) for k, v in uem.items()}
Stringify(uem) == [k \in DOMAIN uem |-> IF uem[k] = None THEN "" ELSE uem[k]]

\* e.get(key) or ""
OrEmpty(v) == IF Truthy(v) THEN v ELSE ""

\* the row of siem.events built from a UEM dict
NormRow(e) ==
    <<OrEmpty(Get(e, "event.provider")), OrEmpty(Get(e, "event.category")),
      OrEmpty(Get(e, "event.type")), OrEmpty(Get(e, "source.ip")),
      OrEmpty(Get(e, "event.original"))>>

MaxRaw == 2
NormBatchSize == 2

\* an XADD that puts the entry before the entries of the stream
XAddFirst(stream, entry) == <<entry>> \o stream

\* XADD stream * fields: the entry gets an id above every id of the stream
XAdd(stream, entry) == Append(stream, entry)

\* self._last_id after a batch when an entry whose XADD raised is kept for
\* the next read
LastIdAfterRetry(last_id, ids, xaddFail) ==
    IF xaddFail = {} THEN Max(ids) ELSE Min(xaddFail) - 1

\* self._last_id after the loop over the entries ids of a read: each entry
\* assigns its id before anything is done with it
LastIdAfter(last_id, ids, xaddFail) == Max(ids)

\* run, "for msg_id, fields in messages" over the entries first..last of RAW:
\* acc = [published, origins, rows]; the XADD of the ids in xaddFail raises
\* origins lists, for each record published, the id of the entry it was made from
RECURSIVE NormMessages(_, _, _, _, _, _)
NormMessages(acc, rules, raw, first, last, xaddFail) ==
    IF first > last THEN acc
    ELSE LET r == NormApplyRules(rules, raw[first])
             next == IF r.ret = "none" THEN acc
                     ELSE [published |->
                               IF first \in xaddFail THEN acc.published
                               ELSE XAdd(acc.published, Stringify(r.uem)),
                           origins |->
                               IF first \in xaddFail THEN acc.origins
                               ELSE XAdd(acc.origins, first),
                           rows |-> Append(acc.rows, NormRow(r.uem))]
         IN  NormMessages(next, rules, raw, first + 1, last, xaddFail)

CursorWorkers == {"normalizer", "filter"}

\* the cursor after the except branch of a read: log, sleep, continue
AfterExceptLatest(last_id, stream) == Len(stream)
AfterExcept(last_id, stream) == last_id

\* XREAD COUNT count STREAMS stream last_id: the ids after last_id
XRead(stream, last_id, count) ==
    (last_id + 1)..Min({Len(stream), last_id + count})

\* the history of a read of worker w
Requested(w, after, ok) == k_req' = [k_req EXCEPT ![w] = [after |-> after, ok |-> ok]]
Seen(w, ids) == k_seen' = [k_seen EXCEPT ![w] = @ \cup ids]
Dropped(w, ids) == k_dropped' = [k_dropped EXCEPT ![w] = @ \cup ids]

NormInit ==
    /\ n_pc = "created"
    /\ n_rules = <<>>
    /\ n_raw = <<>>
    /\ n_last_id = 0
    /\ n_normalized = <<>>
    /\ n_events = <<>>
    /\ n_call = [raw |-> EmptyDict, rules |-> <<>>, ret |-> "nocall", uem |-> EmptyDict]

\* NormalizerWorker.init: the rules are loaded once, lists being what
\* load_rules can return
N_Load(lists) ==
    /\ n_pc = "created"
    /\ n_pc' = "running"
    /\ \E rs \in lists : n_rules' = rs
    /\ UNCHANGED <<n_raw, n_last_id, n_normalized, n_events, n_call>>
    /\ UNCHANGED <<notNorm, curVars>>

N_Init == N_Load(NormRuleLists)

\* the ingress appends an entry to RAW
N_Append ==
    /\ Len(n_raw) < MaxRaw
    /\ \E ev \in RawEvents : n_raw' = Append(n_raw, ev)
    /\ UNCHANGED <<n_pc, n_rules, n_last_id, n_normalized, n_events, n_call>>
    /\ UNCHANGED <<notNorm, curVars>>

\* run: XREAD raises; the worker sleeps and reads again from the same last_id
N_ReadFail ==
    /\ n_pc = "running"
    /\ n_last_id' = AfterExcept(n_last_id, n_raw)
    /\ Requested("normalizer", n_last_id, FALSE)
    /\ UNCHANGED <<n_pc, n_rules, n_raw, n_normalized, n_events, n_call>>
    /\ UNCHANGED <<k_last_id, k_filtered, k_seen, k_origin, k_dropped>>
    /\ UNCHANGED notNorm

\* One iteration of run that read entries: XREAD returns the entries after
\* last_id (at most batch_size); each sets last_id, is normalized and appended
\* to NORMALIZED (the XADD succeeds or raises); the rows are inserted into
\* siem.events (the insert succeeds or raises).  xaddRaises and insertRaises
\* tell whether the broker's XADD and the column store's insert can raise.
N_Iteration(xaddRaises, insertRaises) ==
    /\ n_pc = "running"
    /\ n_last_id < Len(n_raw)
    /\ LET ids == XRead(n_raw, n_last_id, NormBatchSize)
           last == n_last_id + Cardinality(ids)
       IN  \E xaddFail \in (IF xaddRaises THEN SUBSET ids ELSE {{}}),
              insertOk \in (IF insertRaises THEN BOOLEAN ELSE {TRUE}) :
           LET acc == NormMessages([published |-> n_normalized,
                                    origins |-> k_origin["normalizer"],
                                    rows |-> <<>>],
                                   n_rules, n_raw, n_last_id + 1, last, xaddFail)
               r == NormApplyRules(n_rules, n_raw[last])
           IN  /\ n_last_id' = LastIdAfter(n_last_id, ids, xaddFail)
               /\ n_normalized' = acc.published
               /\ k_origin' = [k_origin EXCEPT !["normalizer"] = acc.origins]
               /\ Dropped("normalizer",
                          {id \in xaddFail : NormApplyRules(n_rules, n_raw[id]).ret # "none"})
               /\ n_events' = IF insertOk THEN n_events \o acc.rows ELSE n_events
               /\ n_call' = [raw |-> n_raw[last], rules |-> n_rules,
                             ret |-> r.ret, uem |-> r.uem]
               /\ Requested("normalizer", n_last_id, TRUE)
               /\ Seen("normalizer", ids)
    /\ UNCHANGED <<n_pc, n_rules, n_raw>>
    /\ UNCHANGED <<k_last_id, k_filtered>>
    /\ UNCHANGED notNorm

N_Batch == N_Iteration(TRUE, TRUE)

NormNext == N_Init \/ N_Append \/ N_ReadFail \/ N_Batch

----------------------------------------------------------------------------
(* Filter: the consume loop of services/filter/worker.py                   *)

\* FilterSettings.batch_size is 100 by default; the model reads fewer
FilterBatchSize == 2

\* a loop that appends the event whatever the decision
RECURSIVE FilterMessagesKeepDropped(_, _, _, _, _)
FilterMessagesKeepDropped(acc, rules, first, last, xaddFail) ==
    IF first > last THEN acc
    ELSE LET r == ApplyRules(rules, n_normalized[first])
             next == IF first \in xaddFail
                     THEN acc
                     ELSE [published |-> XAdd(acc.published, Stringify(r.result)),
                           origins |-> XAdd(acc.origins, first)]
         IN  FilterMessagesKeepDropped(next, rules, first + 1, last, xaddFail)

\* run, "for msg_id, fields in messages" over the entries first..last of
\* NORMALIZED: acc = [published, origins], the records published and the ids
\* they were made from; the XADD of the ids in xaddFail raises
RECURSIVE FilterMessages(_, _, _, _, _)
FilterMessages(acc, rules, first, last, xaddFail) ==
    IF first > last THEN acc
    ELSE LET r == ApplyRules(rules, n_normalized[first])
             next == IF r.decision = "drop" \/ first \in xaddFail
                     THEN acc
                     ELSE [published |-> XAdd(acc.published, Stringify(r.result)),
                           origins |-> XAdd(acc.origins, first)]
         IN  FilterMessages(next, rules, first + 1, last, xaddFail)

CursorInit ==
    /\ k_last_id = 0
    /\ k_filtered = <<>>
    /\ k_req = [w \in CursorWorkers |-> [after |-> 0, ok |-> TRUE]]
    /\ k_seen = [w \in CursorWorkers |-> {}]
    /\ k_origin = [w \in CursorWorkers |-> <<>>]
    /\ k_dropped = [w \in CursorWorkers |-> {}]

\* the ingress appends an entry to RAW, a syslog line or a JSON event
CursorRawEvents ==
    { [source |-> "h", source_type |-> "syslog", message |-> "x"],
      [user |-> "bob", source |-> "h", source_type |-> "http_json"] }

K_IngestOf(events) ==
    /\ Len(n_raw) < MaxRaw
    /\ \E ev \in events : n_raw' = Append(n_raw, ev)
    /\ UNCHANGED <<n_pc, n_rules, n_last_id, n_normalized, n_events, n_call>>
    /\ UNCHANGED <<notNorm, curVars>>

K_Ingest == K_IngestOf(CursorRawEvents)

\* run: XREAD raises; the worker sleeps and reads again
K_ReadFail ==
    /\ k_last_id' = AfterExcept(k_last_id, n_normalized)
    /\ Requested("filter", k_last_id, FALSE)
    /\ UNCHANGED <<k_filtered, k_seen, k_origin, k_dropped>>
    /\ UNCHANGED <<normVars, notCursor>>

\* One iteration of run that read entries: each sets last_id, is given to
\* apply_rules and, unless dropped, appended to FILTERED (the XADD succeeds or
\* raises).  xaddRaises tells whether the broker's XADD can raise.
K_Iteration(xaddRaises) ==
    /\ k_last_id < Len(n_normalized)
    /\ LET ids == XRead(n_normalized, k_last_id, FilterBatchSize)
           last == k_last_id + Cardinality(ids)
       IN  \E xaddFail \in (IF xaddRaises THEN SUBSET ids ELSE {{}}) :
           LET acc == FilterMessages([published |-> k_filtered,
                                      origins |-> k_origin["filter"]],
                                     f_rules, k_last_id + 1, last, xaddFail)
           IN  /\ k_last_id' = LastIdAfter(k_last_id, ids, xaddFail)
               /\ k_filtered' = acc.published
               /\ k_origin' = [k_origin EXCEPT !["filter"] = acc.origins]
               /\ Dropped("filter",
                          {id \in xaddFail :
                              ApplyRules(f_rules, n_normalized[id]).decision # "drop"})
               /\ Requested("filter", k_last_id, TRUE)
               /\ Seen("filter", ids)
    /\ UNCHANGED <<normVars, notCursor>>

K_Batch == K_Iteration(TRUE)

\* ---- The filter with rules that drop and tag, fed normalized events

PublishRuleLists ==
    { <<>>,
      <<FilterRule(1, "drop", <<>>, X1),
        FilterRule(2, "tag", <<"b", "c">>, Cmp("x", "!=", "2"))>>,
      <<FilterRule(1, "tag", <<"a">>, X1),
        FilterRule(2, "drop", <<>>, Cmp("x", "==", "2"))>> }

PublishEvents ==
    { [x |-> "1"], [x |-> "2"], [x |-> "1", tags |-> "t0"], [x |-> "3", tags |-> ""] }

MaxPublish == 2

\* self._rules = load_filter_rules()
KP_Reload ==
    /\ \E rs \in PublishRuleLists : f_rules' = rs
    /\ UNCHANGED <<f_argEvent, f_argRules, f_event, f_result, f_decision>>
    /\ UNCHANGED notFilter

\* the normalizer appends a record to NORMALIZED
KP_Append ==
    /\ Len(n_normalized) < MaxPublish
    /\ \E ev \in PublishEvents : n_normalized' = Append(n_normalized, ev)
    /\ UNCHANGED <<n_pc, n_rules, n_raw, n_last_id, n_events, n_call>>
    /\ UNCHANGED <<notNorm, curVars>>

PublishNext == KP_Reload \/ KP_Append \/ K_ReadFail \/ K_Batch

CursorNext ==
    N_Init \/ K_Ingest \/ N_ReadFail \/ N_Batch \/ K_ReadFail \/ K_Batch

\* ---- The normalizer and the filter stopped and started again while the
\* broker keeps RAW and NORMALIZED

\* restarts of the two workers together
MaxRestarts == 1

notRestart ==
    <<filterVars, corrVars, writerVars, s_times, p_call, procVars, ruleVars,
      groupVars, ip_call, aggVars, batchVars, raceVars, loadVars, ruleLoadVars,
      e_call, redeliverVars>>

\* a cursor that starts at the last entry of the stream
LastIdAtStartLatest(stream) == Len(stream)

\* __init__: self._last_id = "0-0", whatever the stream holds
LastIdAtStart(stream) == 0

RestartInit == t_run = [w \in CursorWorkers |-> 0]

\* the histories of a read belong to the run of the process
NewRun(w) ==
    /\ t_run["normalizer"] + t_run["filter"] < MaxRestarts
    /\ t_run' = [t_run EXCEPT ![w] = @ + 1]
    /\ k_req' = [k_req EXCEPT ![w] = [after |-> 0, ok |-> TRUE]]
    /\ k_seen' = [k_seen EXCEPT ![w] = {}]
    /\ k_dropped' = [k_dropped EXCEPT ![w] = {}]

\* the process of the normalizer ends and a new NormalizerWorker is built:
\* no rules until init, the cursor at 0-0
N_Restart ==
    /\ n_pc = "running"
    /\ NewRun("normalizer")
    /\ n_pc' = "created"
    /\ n_rules' = <<>>
    /\ n_last_id' = LastIdAtStart(n_raw)
    /\ UNCHANGED <<n_raw, n_normalized, n_events, n_call>>
    /\ UNCHANGED <<k_last_id, k_filtered, k_origin>>
    /\ UNCHANGED notRestart

\* the process of the filter ends and a new FilterWorker is built, which
\* loads the rules of the same table
K_Restart ==
    /\ NewRun("filter")
    /\ k_last_id' = LastIdAtStart(n_normalized)
    /\ UNCHANGED <<k_filtered, k_origin>>
    /\ UNCHANGED <<normVars, notRestart>>

\* siem.normalizer_rules holds no enabled rule or one
NR_Init == N_Load({<<>>, <<NormalizerRule(1, "http_json", EmptyDict)>>})

\* the ingress appends an entry to RAW
NR_Ingest == K_IngestOf(CursorRawEvents)

\* iterations with a broker and a column store that answer
NR_Batch == N_Iteration(FALSE, FALSE)
KR_Batch == K_Iteration(FALSE)

\* a step of NR_Batch and of KR_Batch as the cursor shows it
NR_Advance == n_pc = "running" /\ n_last_id' \in (n_last_id + 1)..Len(n_raw)
KR_Advance == k_last_id' \in (k_last_id + 1)..Len(n_normalized)

RestartNext ==
    NR_Init \/ NR_Ingest \/ NR_Batch \/ KR_Batch \/ N_Restart \/ K_Restart

----------------------------------------------------------------------------
(* Writer: services/writer/worker.py                                        *)

\* WriterSettings.batch_size is 100 by default; the model reads fewer
WBatchSize == 2
\* entries appended to FILTERED, and readings of the clock
MaxW == 3
MaxWTime == 2

\* a stream id: <ms>-<seq>
MsgId(i) == ToString(i) \o "-0"

\* The records the filter publishes to FILTERED: flat string fields.  The
\* last one carries a port that is not a number.
WriterEntries ==
    { ("event.provider" :> "syslog" @@ "event.original" :> "m1"),
      ("event_id" :> "e7" @@ "event.provider" :> "syslog" @@
       "event.original" :> "m2" @@ "source.ip" :> "10.0.0.1" @@
       "source.port" :> "22"),
      ("event.provider" :> "syslog" @@ "event.original" :> "m3" @@
       "source.port" :> "ssh") }

\* ---- ipv4_to_int.  Its argument is a str given as the sequence of its
\* characters, or None, given as the sequence NoText that holds no character
NoText == <<None>>

DigitChars == <<"0", "1", "2", "3", "4", "5", "6", "7", "8", "9">>
IsDigit(c) == \E d \in 1..10 : DigitChars[d] = c
DigitValue(c) == (CHOOSE d \in 1..10 : DigitChars[d] = c) - 1

\* str(v) of a number that is not negative: its decimal text
RECURSIVE Decimal(_)
Decimal(v) ==
    IF v < 10 THEN <<DigitChars[v + 1]>>
    ELSE Decimal(v \div 10) \o <<DigitChars[(v % 10) + 1]>>

\* ip.split('.'): acc holds the parts that are closed, part the open one
RECURSIVE SplitDots(_, _, _)
SplitDots(chars, acc, part) ==
    IF chars = <<>> THEN Append(acc, part)
    ELSE IF Head(chars) = "." THEN SplitDots(Tail(chars), Append(acc, part), <<>>)
    ELSE SplitDots(Tail(chars), acc, Append(part, Head(chars)))

\* int(octet_str, 10) on a string of digits
RECURSIVE DecimalInt(_, _)
DecimalInt(digits, acc) ==
    IF digits = <<>> THEN acc
    ELSE DecimalInt(Tail(digits), acc * 10 + DigitValue(Head(digits)))

\* the octet parser with no upper limit on the octet
ParseOctetRaisesNoLimit(octet) ==
    \/ octet = <<>>
    \/ \E i \in 1..Len(octet) : ~IsDigit(octet[i])
    \/ Len(octet) > 3
    \/ octet # <<"0">> /\ octet[1] = "0"

\* ipaddress.IPv4Address: the octet parser raises on an empty octet, on a
\* character that is not a decimal digit, on more than 3 characters, on a
\* leading zero and on a value above 255
ParseOctetRaises(octet) ==
    \/ octet = <<>>
    \/ \E i \in 1..Len(octet) : ~IsDigit(octet[i])
    \/ Len(octet) > 3
    \/ octet # <<"0">> /\ octet[1] = "0"
    \/ DecimalInt(octet, 0) > 255

\* A Python int that may exceed 2^31 - 1 is the pair <<high, low>> of its
\* digits in base 2^16: the number high * 2^16 + low
Int32(high, low) == <<high, low>>
Zero == Int32(0, 0)

\* int(ipaddress.IPv4Address(ip)): four octets, big-endian
Ipv4Address(chars) ==
    LET octets == SplitDots(chars, <<>>, <<>>)
    IN  IF Len(octets) # 4 \/ \E i \in 1..4 : ParseOctetRaises(octets[i])
        THEN [raises |-> TRUE, int |-> Zero]
        ELSE [raises |-> FALSE,
              int |-> Int32(DecimalInt(octets[1], 0) * 256
                              + DecimalInt(octets[2], 0),
                            DecimalInt(octets[3], 0) * 256
                              + DecimalInt(octets[4], 0))]

\* ipv4_to_int: 0 for None, "" and whatever IPv4Address raises on
Ipv4ToInt(ip) ==
    IF ip = NoText \/ ip = <<>> THEN Zero
    ELSE IF Ipv4Address(ip).raises THEN Zero
    ELSE Ipv4Address(ip).int

\* the characters of the strings the writer's records carry as addresses
Text(v) ==
    IF v = None THEN NoText
    ELSE IF v = "" THEN <<>>
    ELSE IF v = "10.0.0.1" THEN <<"1", "0", ".", "0", ".", "0", ".", "1">>
    ELSE <<"b", "a", "d">>

\* The arguments of the calls: None, the texts made of at most MaxOctets
\* parts with a dot between two parts, and a text of five octets
OctetTexts ==
    { <<>>, <<"0">>, <<"1">>, <<"1", "0">>, <<"2", "5", "5">>,
      <<"2", "5", "6">>, <<"0", "1">>, <<"b", "a", "d">> }
MaxOctets == 4

RECURSIVE JoinDots(_)
JoinDots(parts) ==
    IF Len(parts) = 1 THEN parts[1]
    ELSE parts[1] \o <<".">> \o JoinDots(Tail(parts))

IpTexts ==
    {NoText, JoinDots(<<<<"1">>, <<"0">>, <<"0">>, <<"0">>, <<"1">>>>)} \cup
    { JoinDots(parts) : parts \in UNION { [1..n -> OctetTexts] : n \in 1..MaxOctets } }

notIp == <<pipelineVars, aggVars, batchVars, raceVars, lastVars>>

IpInit == ip_call = [ip |-> NoText, ret |-> "nocall", value |-> Zero]

\* a call ipv4_to_int(ip); _build_row makes two for each record
I_Ipv4ToInt ==
    /\ ip_call.ret = "nocall"
    /\ \E ip \in IpTexts :
          ip_call' = [ip |-> ip, ret |-> "return", value |-> Ipv4ToInt(ip)]
    /\ UNCHANGED notIp

\* the caller is done with the value (_build_row: the next field)
I_NextField ==
    /\ ip_call.ret # "nocall"
    /\ ip_call' = [ip |-> NoText, ret |-> "nocall", value |-> Zero]
    /\ UNCHANGED notIp

IpNext == I_Ipv4ToInt \/ I_NextField

\* int(str) on the strings of the model: raises ValueError on a non-number
IntRaises(v) == v \notin {"0", "22"}
PyInt(v) == IF v = "22" THEN 22 ELSE 0

\* int(fields.get(key, "0") or 0)
PortArg(fields, key) == IF key \in DOMAIN fields THEN fields[key] ELSE "0"
PortRaises(fields, key) ==
    PortArg(fields, key) # "" /\ IntRaises(PortArg(fields, key))
Port(fields, key) ==
    IF PortArg(fields, key) = "" THEN 0 ELSE PyInt(PortArg(fields, key))

\* a or b
OrElse(a, b) == IF Truthy(a) THEN a ELSE b

\* a _build_row that never raises
BuildRowRaisesNever(fields) == FALSE

\* _build_row raises
BuildRowRaises(fields) ==
    PortRaises(fields, "source.port") \/ PortRaises(fields, "destination.port")

\* _build_row with an event_id drawn at build time instead of fields / msg_id
BuildRowFreshId(msg_id, fields, now) ==
    LET provider == IF "event.provider" \in DOMAIN fields
                    THEN fields["event.provider"] ELSE ""
    IN  [ ts |-> now,
          event_id |-> msg_id \o "@" \o ToString(now),
          category |-> OrElse(Get(fields, "event.category"),
                              OrElse(provider, "generic")),
          subcategory |-> OrElse(Get(fields, "event.type"), ""),
          src_ip |-> Ipv4ToInt(Text(Get(fields, "source.ip"))),
          dst_ip |-> Ipv4ToInt(Text(Get(fields, "destination.ip"))),
          src_port |-> Port(fields, "source.port"),
          dst_port |-> Port(fields, "destination.port"),
          device_vendor |-> OrElse(Get(fields, "device.vendor"), provider),
          device_product |-> OrElse(Get(fields, "device.product"), provider),
          log_source |-> OrElse(Get(fields, "log_source"),
                                OrElse(Get(fields, "host.name"),
                                       OrElse(Get(fields, "source.ip"), ""))),
          severity |-> OrElse(Get(fields, "event.severity"),
                              OrElse(Get(fields, "severity"),
                                     OrElse(Get(fields, "log.level"), "info"))),
          message |-> OrElse(Get(fields, "event.original"),
                             OrElse(Get(fields, "message"), "")) ]

\* _build_row(msg_id, fields), now being its reading of datetime.now
BuildRow(msg_id, fields, now) ==
    LET provider == IF "event.provider" \in DOMAIN fields
                    THEN fields["event.provider"] ELSE ""
    IN  [ ts |-> now,
          event_id |-> OrElse(Get(fields, "event_id"), msg_id),
          category |-> OrElse(Get(fields, "event.category"),
                              OrElse(provider, "generic")),
          subcategory |-> OrElse(Get(fields, "event.type"), ""),
          src_ip |-> Ipv4ToInt(Text(Get(fields, "source.ip"))),
          dst_ip |-> Ipv4ToInt(Text(Get(fields, "destination.ip"))),
          src_port |-> Port(fields, "source.port"),
          dst_port |-> Port(fields, "destination.port"),
          device_vendor |-> OrElse(Get(fields, "device.vendor"), provider),
          device_product |-> OrElse(Get(fields, "device.product"), provider),
          log_source |-> OrElse(Get(fields, "log_source"),
                                OrElse(Get(fields, "host.name"),
                                       OrElse(Get(fields, "source.ip"), ""))),
          severity |-> OrElse(Get(fields, "event.severity"),
                              OrElse(Get(fields, "severity"),
                                     OrElse(Get(fields, "log.level"), "info"))),
          message |-> OrElse(Get(fields, "event.original"),
                             OrElse(Get(fields, "message"), "")) ]

\* siem.events as the specification describes the sink: rows are identified
\* by event_id, and the insert of a row whose event_id the table holds is
\* dropped
RECURSIVE SinkInsert(_, _)
SinkInsert(table, rows) ==
    IF rows = <<>> THEN table
    ELSE LET r == Head(rows)
         IN  SinkInsert(IF \E x \in table : x.event_id = r.event_id
                        THEN table ELSE table \cup {r},
                        Tail(rows))

\* the elements of a list
Elems(list) == {list[i] : i \in 1..Len(list)}

\* XREADGROUP ... COUNT count STREAMS FILTERED >: the ids delivered, in order
ReadNew(count) ==
    [i \in 1..Min({count, Len(w_log) - w_pos}) |-> w_pos + i]

WriterInit ==
    /\ w_log = <<>>
    /\ w_pos = 0
    /\ w_pel = {}
    /\ w_events = {}
    /\ w_clock = 1
    /\ c_batch = <<>>
    /\ w_acked = {}
    /\ w_inserted = {}
    /\ w_raised = {}
    /\ w_replayed = {}

\* the filter appends a record to FILTERED
W_Append ==
    /\ Len(w_log) < MaxW
    /\ \E e \in WriterEntries : w_log' = Append(w_log, e)
    /\ UNCHANGED <<w_pos, w_pel, w_events, w_clock, c_batch,
                   w_acked, w_inserted, w_raised, w_replayed>>
    /\ UNCHANGED notWriter

\* One iteration of WriterWorker.run that read something (an empty read
\* changes nothing) and whose broker calls return.  insertOk: ch.execute
\* returns rather than raises.
W_Consume(insertOk) ==
    /\ w_pos < Len(w_log)
    /\ \E now \in w_clock..MaxWTime :
       LET read == ReadNew(WBatchSize)
           ids == SelectSeq(read, LAMBDA id : ~BuildRowRaises(w_log[id]))
           bad == Elems(read) \ Elems(ids)
           rows == [i \in 1..Len(ids) |->
                      BuildRow(MsgId(ids[i]), w_log[ids[i]], now)]
       IN  /\ w_pos' = w_pos + Len(read)
           /\ w_clock' = now
           /\ w_raised' = w_raised \cup bad
           /\ IF rows = <<>>
              THEN \* if not rows: continue
                   /\ w_acked' = w_acked \cup bad
                   /\ UNCHANGED <<w_pel, w_events, w_inserted, w_replayed>>
              ELSE IF insertOk
              THEN /\ w_events' = SinkInsert(w_events, rows)
                   /\ w_inserted' = w_inserted \cup Elems(ids)
                   /\ w_acked' = w_acked \cup Elems(read)
                   /\ w_replayed' = w_replayed \cup
                          (Elems(ids) \cap w_inserted \cap w_acked)
                   /\ UNCHANGED w_pel
              ELSE \* the entries of ids stay pending
                   /\ w_pel' = w_pel \cup Elems(ids)
                   /\ w_acked' = w_acked \cup bad
                   /\ UNCHANGED <<w_events, w_inserted, w_replayed>>
    /\ UNCHANGED <<w_log, c_batch>>
    /\ UNCHANGED notProc

W_Iteration(insertOk) == W_Consume(insertOk) /\ UNCHANGED procVars

W_Batch == \E insertOk \in BOOLEAN : W_Iteration(insertOk)

\* The group is gone from the broker (XGROUP DESTROY, or a broker that lost
\* it) and init creates it again at "0-0": every entry is delivered anew.
W_Recreate ==
    /\ w_pos > 0
    /\ w_pos' = 0
    /\ w_pel' = {}
    /\ UNCHANGED <<w_log, w_events, w_clock, c_batch,
                   w_acked, w_inserted, w_raised, w_replayed>>
    /\ UNCHANGED notWriter

WriterNext == W_Append \/ W_Batch

ReplayNext == W_Append \/ W_Batch \/ W_Recreate

----------------------------------------------------------------------------
(* The worker processes: what ends them                                    *)

Workers == {"stream_corr", "writer", "writer_core", "batch_corr"}

\* the rows of siem.correlation_rules_batch with enabled = 1, at most
MaxBatchRules == 2
\* the statements the model counts
MaxExecuted == 3

ProcInit ==
    /\ x_pc = [w \in Workers |-> "run"]
    /\ b_executed = 0

\* the exception leaves run, main and asyncio.run
Dies(w) == x_pc' = [x_pc EXCEPT ![w] = "dead"]

FirstOf(ids) == CHOOSE id \in ids : \A other \in ids : id <= other

\* One iteration of WriterWorker.run, its broker calls failing or not.
\* readOk: XREADGROUP returns; ackOk: the XACK calls return; neither call
\* is inside a try.
W_Run(readOk, insertOk, ackOk) ==
    /\ x_pc["writer"] = "run"
    /\ IF ~readOk
       THEN /\ Dies("writer")
            /\ UNCHANGED <<writerVars, b_executed, notProc>>
       ELSE LET read == ReadNew(WBatchSize)
                ids == SelectSeq(read, LAMBDA id : ~BuildRowRaises(w_log[id]))
                bad == Elems(read) \ Elems(ids)
            IN  IF ackOk
                THEN W_Consume(insertOk) /\ UNCHANGED procVars
                ELSE /\ w_pos < Len(w_log)
                     /\ \/ \* XACK of the first record whose row raised
                           /\ bad # {}
                           /\ w_raised' = w_raised \cup {FirstOf(bad)}
                           /\ w_pel' = w_pel \cup Elems(read)
                           /\ UNCHANGED <<w_events, w_inserted, w_clock>>
                        \/ \* XACK of the batch after the insert
                           /\ bad = {}
                           /\ insertOk
                           /\ \E now \in w_clock..MaxWTime :
                                /\ w_clock' = now
                                /\ w_events' = SinkInsert(w_events,
                                      [i \in 1..Len(ids) |->
                                         BuildRow(MsgId(ids[i]), w_log[ids[i]],
                                                  now)])
                           /\ w_inserted' = w_inserted \cup Elems(ids)
                           /\ w_pel' = w_pel \cup Elems(read)
                           /\ UNCHANGED w_raised
                     /\ w_pos' = w_pos + Len(read)
                     /\ Dies("writer")
                     /\ UNCHANGED <<w_log, c_batch, w_acked, w_replayed>>
                     /\ UNCHANGED <<b_executed, notProc>>

W_Loop == \E readOk, insertOk, ackOk \in BOOLEAN : W_Run(readOk, insertOk, ackOk)

\* BatchCorrWorker._run_rules_once: rules is what _load_rules returns, or the
\* load raises; execOk[i]: client.execute of rule i returns
B_RunRulesOnce(loadOk, rules, execOk) ==
    /\ x_pc["batch_corr"] = "run"
    /\ IF ~loadOk
       THEN /\ Dies("batch_corr")
            /\ UNCHANGED b_executed
       ELSE /\ b_executed' =
                 Min({MaxExecuted,
                      b_executed + Cardinality({i \in 1..rules : execOk[i]})})
            /\ UNCHANGED x_pc
    /\ UNCHANGED <<writerVars, notProc>>

B_Run ==
    \E loadOk \in BOOLEAN, rules \in 0..MaxBatchRules :
        \E execOk \in [1..rules -> BOOLEAN] :
            B_RunRulesOnce(loadOk, rules, execOk)

EscapeNext == W_Append \/ W_Loop \/ B_Run

----------------------------------------------------------------------------
(* The rule lists: the reload tasks and the loops that read self._rules    *)

RuleWorkers == {"filter", "stream_corr"}

\* the rule tables are edited at most MaxVersions times
MaxVersions == 2
\* the failed reloads the model counts, per worker
MaxRuleFails == 2

\* what the loader returns for version v of the table: a new list, of 2 or 3
\* rules
RuleList(v) == [i \in 1..((v % 2) + 2) |-> <<v, i>>]

NoLoop == [active |-> FALSE, list |-> <<>>, idx |-> 0]

\* init has loaded the rules
RuleInit ==
    /\ r_store = 0
    /\ r_rules = [w \in RuleWorkers |-> RuleList(0)]
    /\ r_loop = [w \in RuleWorkers |-> NoLoop]
    /\ r_applied = [w \in RuleWorkers |-> <<>>]
    /\ r_fails = [w \in RuleWorkers |-> 0]

\* an operator edits the rule tables
R_Edit ==
    /\ r_store < MaxVersions
    /\ r_store' = r_store + 1
    /\ UNCHANGED <<r_rules, r_loop, r_applied, r_fails>>
    /\ UNCHANGED notRule

\* self._rules after the try of the reload task: the assignment is skipped
\* when the loader raised
AssignedOrCleared(old, ok, new) == IF ok THEN new ELSE <<>>
Assigned(old, ok, new) == IF ok THEN new ELSE old

\* One turn of _reload_rules_periodically between two sleeps.  ok: the
\* loader returns.  The loader is synchronous: nothing runs while it builds
\* its list.
R_Reload(w, ok) ==
    /\ ~ok => r_fails[w] < MaxRuleFails
    /\ r_rules' = [r_rules EXCEPT
                      ![w] = Assigned(r_rules[w], ok, RuleList(r_store))]
    /\ r_fails' = [r_fails EXCEPT ![w] = IF ok THEN @ ELSE @ + 1]
    /\ UNCHANGED <<r_store, r_loop, r_applied>>
    /\ UNCHANGED notRule

R_ReloadTick == \E w \in RuleWorkers, ok \in BOOLEAN : R_Reload(w, ok)

\* FilterWorker.apply_rules for one event: a synchronous loop over
\* self._rules that ends at the first effective rule, the k-th, or at the end
\* of the list
R_ApplyRules ==
    /\ \E k \in 1..Len(r_rules["filter"]) :
           r_applied' = [r_applied EXCEPT
                           !["filter"] = SubSeq(r_rules["filter"], 1, k)]
    /\ UNCHANGED <<r_store, r_rules, r_loop, r_fails>>
    /\ UNCHANGED notRule

\* the rule the iterator of the loop yields next; current is self._rules at
\* that moment
NextRuleOfAttribute(loop, current) ==
    IF loop.idx + 1 <= Len(current) THEN current[loop.idx + 1]
    ELSE loop.list[loop.idx + 1]
NextRule(loop, current) == loop.list[loop.idx + 1]

\* StreamCorrWorker.run, the loop over the rules for one event.  "for rule in
\* self._rules" reads the attribute once; the window update of a rule runs
\* the event loop (run_until_complete), where the reload task may be
\* scheduled, so the loop is taken rule by rule.
R_LoopBegin ==
    /\ ~r_loop["stream_corr"].active
    /\ r_loop' = [r_loop EXCEPT
                     !["stream_corr"] = [active |-> TRUE,
                                         list |-> r_rules["stream_corr"],
                                         idx |-> 0]]
    /\ r_applied' = [r_applied EXCEPT !["stream_corr"] = <<>>]
    /\ UNCHANGED <<r_store, r_rules, r_fails>>
    /\ UNCHANGED notRule

R_LoopStep ==
    LET loop == r_loop["stream_corr"] IN
    /\ loop.active
    /\ loop.idx < Len(loop.list)
    /\ r_applied' = [r_applied EXCEPT
                        !["stream_corr"] =
                            Append(@, NextRule(loop, r_rules["stream_corr"]))]
    /\ r_loop' = [r_loop EXCEPT !["stream_corr"].idx = @ + 1]
    /\ UNCHANGED <<r_store, r_rules, r_fails>>
    /\ UNCHANGED notRule

R_LoopEnd ==
    LET loop == r_loop["stream_corr"] IN
    /\ loop.active
    /\ loop.idx = Len(loop.list)
    /\ r_loop' = [r_loop EXCEPT !["stream_corr"] = NoLoop]
    /\ UNCHANGED <<r_store, r_rules, r_applied, r_fails>>
    /\ UNCHANGED notRule

RuleNext ==
    R_Edit \/ R_ReloadTick \/ R_ApplyRules
        \/ R_LoopBegin \/ R_LoopStep \/ R_LoopEnd

----------------------------------------------------------------------------
(* The consumer groups: init of the stream correlator and of the writers   *)

GroupWorkers == {"stream_corr", "writer", "writer_core"}

\* SIEM_STREAM_CORR_GROUP and SIEM_WRITER_GROUP: both writers name the same
\* group
GroupOf(w) == IF w = "stream_corr" THEN "siem_stream_corr" ELSE "writer"

Groups == {GroupOf(w) : w \in GroupWorkers}

\* the entries of FILTERED, at most
MaxFiltered == 2
\* count of an XREADGROUP in the model
GroupBatchSize == 2

NoGroup == [exists |-> FALSE, pos |-> 0, pel |-> {}]
\* XGROUP CREATE ... 0-0 MKSTREAM
NewGroup == [exists |-> TRUE, pos |-> 0, pel |-> {}]

\* every worker has run its init once: the groups exist
GroupInit ==
    /\ g_len = 0
    /\ g_group = [g \in Groups |-> NewGroup]
    /\ g_create = [w \in GroupWorkers |-> "none"]
    /\ g_loaded = TRUE
    /\ g_times = [g \in Groups |-> [id \in 1..MaxFiltered |-> 0]]

\* what the broker answers to XGROUP CREATE; "error" is any other failure
CreateOutcomes(group) ==
    IF group.exists THEN {"BUSYGROUP", "error"} ELSE {"created", "error"}

\* init after xgroup_create raised: "go on" or "raise".  The stream
\* correlator logs whatever was raised.
CorrOnCreateError(outcome) == "go on"
\* WriterWorker.init of writer/worker.py
WriterOnCreateErrorRaises(outcome) == "raise"
WriterOnCreateError(outcome) ==
    IF outcome = "BUSYGROUP" THEN "go on" ELSE "raise"
\* WriterWorker.ensure_group of writer_core.py
CoreOnCreateError(outcome) ==
    IF outcome = "BUSYGROUP" THEN "go on" ELSE "raise"

OnCreate(w, outcome) ==
    IF outcome = "created" THEN "go on"
    ELSE IF w = "stream_corr" THEN CorrOnCreateError(outcome)
    ELSE IF w = "writer" THEN WriterOnCreateError(outcome)
    ELSE CoreOnCreateError(outcome)

\* a producer appends to FILTERED
G_Append ==
    /\ g_len < MaxFiltered
    /\ g_len' = g_len + 1
    /\ UNCHANGED <<g_group, g_create, g_loaded, g_times, x_pc>>
    /\ UNCHANGED notGroup

\* the broker loses its data (FLUSHALL, a restart without persistence)
G_Flush ==
    /\ g_len > 0
    /\ g_len' = 0
    /\ g_group' = [g \in Groups |-> NoGroup]
    /\ g_times' = [g \in Groups |-> [id \in 1..MaxFiltered |-> 0]]
    /\ UNCHANGED <<g_create, g_loaded, x_pc>>
    /\ UNCHANGED notGroup

\* the process of worker w is started again; its init has not run yet
G_Restart(w) ==
    /\ x_pc[w] \in {"run", "dead"}
    /\ x_pc' = [x_pc EXCEPT ![w] = "init"]
    /\ g_create' = [g_create EXCEPT ![w] = "none"]
    /\ UNCHANGED <<g_len, g_group, g_loaded, g_times>>
    /\ UNCHANGED notGroup

\* init of worker w (ensure_group in writer_core.py).  outcome: the answer
\* to xgroup_create; loadOk: load_stream_rules returns (stream correlator).
G_Init(w, outcome, loadOk) ==
    LET g == GroupOf(w)
        load == w = "stream_corr" => loadOk
    IN  /\ x_pc[w] = "init"
        /\ outcome \in CreateOutcomes(g_group[g])
        /\ w # "stream_corr" => loadOk
        /\ g_group' = IF outcome = "created"
                       THEN [g_group EXCEPT ![g] = NewGroup]
                       ELSE g_group
        /\ x_pc' = [x_pc EXCEPT
                      ![w] = IF OnCreate(w, outcome) = "go on" /\ load
                             THEN "run" ELSE "dead"]
        /\ g_create' = [g_create EXCEPT ![w] = outcome]
        /\ g_loaded' = IF w = "stream_corr" THEN loadOk ELSE g_loaded
        /\ UNCHANGED <<g_len, g_times>>
        /\ UNCHANGED notGroup

\* an XREADGROUP with the id 0: the entries pending in the group, and the
\* new ones when none is pending
XReadGroupPending(group, len, count) ==
    IF group.pel # {} THEN group.pel
    ELSE (group.pos + 1)..Min({len, group.pos + count})

\* XREADGROUP with the id '>': the entries never delivered to the group, at
\* most count of them
XReadGroup(group, len, count) ==
    (group.pos + 1)..Min({len, group.pos + count})

\* One iteration of the consume loop of worker w that read entries:
\* XREADGROUP '>' delivers the entries after pos; acked: the iteration
\* acknowledges them (it leaves them pending when its insert or XACK raised)
G_Consume(w, acked) ==
    LET g == GroupOf(w)
        ids == XReadGroup(g_group[g], g_len, GroupBatchSize)
    IN  /\ x_pc[w] = "run"
        /\ g_group[g].exists
        /\ ids # {}
        /\ g_group' = [g_group EXCEPT
                         ![g].pos = Max({@} \cup ids),
                         ![g].pel = IF acked THEN @ \ ids ELSE @ \cup ids]
        /\ g_times' = [g_times EXCEPT
                         ![g] = [id \in 1..MaxFiltered |->
                                    IF id \in ids THEN Min({2, @[id] + 1})
                                    ELSE @[id]]]
        /\ UNCHANGED <<g_len, g_create, g_loaded, x_pc>>
        /\ UNCHANGED notGroup

G_Start == \E w \in GroupWorkers : G_Restart(w)

G_InitWorker ==
    \E w \in GroupWorkers, outcome \in {"created", "BUSYGROUP", "error"},
       loadOk \in BOOLEAN : G_Init(w, outcome, loadOk)

G_Loop == \E w \in GroupWorkers, acked \in BOOLEAN : G_Consume(w, acked)

GroupNext == G_Append \/ G_Flush \/ G_Start \/ G_InitWorker \/ G_Loop

----------------------------------------------------------------------------
(* Writer: services/writer/writer_core.py                                   *)

\* values of the field data: a JSON object with every column of siem.events,
\* a JSON object without the column ts, and a string that is not JSON
DataFull == "{\"ts\": 1, \"event_id\": \"e9\", \"category\": \"auth\", \"subcategory\": \"\", \"src_ip\": 0, \"dst_ip\": 0, \"src_port\": 0, \"dst_port\": 0, \"device_vendor\": \"\", \"device_product\": \"\", \"log_source\": \"h\", \"severity\": \"info\", \"message\": \"m9\"}"
DataNoTs == "{\"event_id\": \"e8\"}"
DataBroken == "{not json"

\* the entries a producer of JSON payloads appends to FILTERED
CoreEntries ==
    { [data |-> DataFull], [data |-> DataNoTs], [data |-> DataBroken] }

EventColumns ==
    << "ts", "event_id", "category", "subcategory", "src_ip", "dst_ip",
       "src_port", "dst_port", "device_vendor", "device_product",
       "log_source", "severity", "message" >>

\* json.loads on the strings of the model
JsonRaises(text) == text \notin {DataFull, DataNoTs}
JsonLoads(text) ==
    IF text = DataFull
    THEN [ ts |-> 1, event_id |-> "e9", category |-> "auth",
           subcategory |-> "", src_ip |-> 0, dst_ip |-> 0, src_port |-> 0,
           dst_port |-> 0, device_vendor |-> "", device_product |-> "",
           log_source |-> "h", severity |-> "info", message |-> "m9" ]
    ELSE [ event_id |-> "e8" ]

\* json.loads(fields["data"]) raises: KeyError or a JSON error
ParseRaises(fields) ==
    "data" \notin DOMAIN fields \/ JsonRaises(fields["data"])

\* _flush_batch raises KeyError while it builds the rows
FlushRaises(batch) ==
    \E i \in 1..Len(batch) :
        \E c \in Elems(EventColumns) : c \notin DOMAIN batch[i].payload

\* the rows _flush_batch builds
FlushRows(batch) ==
    [i \in 1..Len(batch) |->
        [c \in Elems(EventColumns) |-> batch[i].payload[c]]]

\* a producer of JSON payloads appends a record to FILTERED
C_Append ==
    /\ Len(w_log) < MaxW
    /\ \E e \in CoreEntries : w_log' = Append(w_log, e)
    /\ UNCHANGED <<w_pos, w_pel, w_events, w_clock, c_batch,
                   w_acked, w_inserted, w_raised, w_replayed>>
    /\ UNCHANGED notWriter

\* One iteration of run_forever that read something (an empty read skips the
\* flush).  insertOk: ch.execute returns rather than raises.
C_Iteration(insertOk) ==
    /\ w_pos < Len(w_log)
    /\ LET read == ReadNew(WBatchSize)
           parsed == SelectSeq(read, LAMBDA id : ~ParseRaises(w_log[id]))
           failed == Elems(read) \ Elems(parsed)
           \* batch.append(payload) for every message parsed; batch is the
           \* list of the whole loop and holds what an earlier flush left
           batch == c_batch \o
                    [i \in 1..Len(parsed) |->
                       [id |-> parsed[i],
                        payload |-> JsonLoads(w_log[parsed[i]]["data"])]]
       IN  /\ w_pos' = w_pos + Len(read)
           \* xack right after the append; a message that raised is not
           \* acknowledged
           /\ w_acked' = w_acked \cup Elems(parsed)
           /\ w_pel' = w_pel \cup failed
           /\ w_raised' = w_raised \cup failed
           /\ IF batch # <<>> /\ insertOk /\ ~FlushRaises(batch)
              THEN /\ w_events' = SinkInsert(w_events, FlushRows(batch))
                   /\ w_inserted' =
                          w_inserted \cup {batch[i].id : i \in 1..Len(batch)}
                   /\ c_batch' = <<>>
              ELSE \* the flush raised (or there is nothing to flush): the
                   \* outer except logs, and batch is not cleared
                   /\ c_batch' = batch
                   /\ UNCHANGED <<w_events, w_inserted>>
    /\ UNCHANGED <<w_log, w_clock, w_replayed>>
    /\ UNCHANGED notWriter

C_Batch == \E insertOk \in BOOLEAN : C_Iteration(insertOk)

CoreNext == W_Append \/ C_Append \/ C_Batch

----------------------------------------------------------------------------
(* Alerts aggregator: services/alert_agg/worker.py                         *)

\* (rule_id, entity_key) of the alerts the correlators insert
AggKeys == {<<1, "u1">>, <<1, "u2">>, <<2, "u1">>}
\* alerts inserted into alerts_raw while the aggregator runs
MaxNewAlerts == 2
\* arraySlice(groupArray(context_json), 1, 3)
SamplesLimit == 3

\* a row of alerts_raw inserted when the table holds n rows: the columns the
\* aggregate reads.  Its time is n + 1, its window one second, its context
\* its own.
RawAlert(key, status, n) ==
    [rule_id |-> key[1], entity_key |-> key[2], ts_first |-> n, ts_last |-> n + 1,
     context_json |-> n + 1, status |-> status]

\* the rows of alerts_raw when the aggregator starts
RawAtStart ==
    <<RawAlert(<<1, "u1">>, "open", 0), RawAlert(<<1, "u1">>, "closed", 1),
      RawAlert(<<1, "u1">>, "closed", 2)>>

\* the order of the strings of the status column: closed < open
StatusOrder == <<"closed", "open">>
StatusRank(st) == CHOOSE i \in 1..Len(StatusOrder) : StatusOrder[i] = st

\* min(status) in place of max(status)
MinStatus(group) ==
    StatusOrder[Min({StatusRank(group[i].status) : i \in 1..Len(group)})]

\* max(status) over the rows of a group
MaxStatus(group) ==
    StatusOrder[Max({StatusRank(group[i].status) : i \in 1..Len(group)})]

\* GROUP BY rule_id, entity_key: the keys, and the rows of one key
GroupKeys(raw) == {<<raw[i].rule_id, raw[i].entity_key>> : i \in 1..Len(raw)}
GroupRows(raw, key) ==
    SelectSeq(raw, LAMBDA a : <<a.rule_id, a.entity_key>> = key)

\* the SELECT list of AGG_INSERT_SQL for one group; ts, agg_id, rule_name,
\* severity_agg and group_key_json are not columns of the model
AggRow(key, group) ==
    [rule_id |-> key[1],
     entity_key |-> key[2],
     ts_first |-> Min({group[i].ts_first : i \in 1..Len(group)}),
     ts_last |-> Max({group[i].ts_last : i \in 1..Len(group)}),
     count_alerts |-> Len(group),
     unique_entities |-> Cardinality({group[i].entity_key : i \in 1..Len(group)}),
     samples_json |-> SubSeq([i \in 1..Len(group) |-> group[i].context_json],
                             1, Min({SamplesLimit, Len(group)})),
     status |-> IF MaxStatus(group) = "open" THEN "open" ELSE "closed"]

\* the rows AGG_INSERT_SQL selects
AggSelect(raw) == {AggRow(key, GroupRows(raw, key)) : key \in GroupKeys(raw)}

notAgg == <<pipelineVars, ip_call, batchVars, raceVars, lastVars>>

\* an aggregation ran before: alerts_agg is the aggregate of alerts_raw
AggInit ==
    /\ a_raw = RawAtStart
    /\ a_agg = AggSelect(RawAtStart)
    /\ a_pc = "sleep"
    /\ a_src = RawAtStart
    /\ a_last = "none"

\* a correlator inserts an alert into alerts_raw
A_Alert ==
    /\ Len(a_raw) < Len(RawAtStart) + MaxNewAlerts
    /\ \E key \in AggKeys, status \in {"open", "closed"} :
          a_raw' = Append(a_raw, RawAlert(key, status, Len(a_raw)))
    /\ UNCHANGED <<a_agg, a_pc, a_src, a_last>>
    /\ UNCHANGED notAgg

\* _run_aggregation, statement 1: TRUNCATE TABLE siem.alerts_agg; when it
\* raises, run logs and sleeps
A_Truncate(ok) ==
    /\ a_pc = "sleep"
    /\ IF ok
       THEN a_agg' = {} /\ a_pc' = "truncated" /\ UNCHANGED a_last
       ELSE a_last' = "failed" /\ UNCHANGED <<a_agg, a_pc>>
    /\ UNCHANGED <<a_raw, a_src>>
    /\ UNCHANGED notAgg

\* statement 2: AGG_INSERT_SQL
A_InsertSelect(ok) ==
    /\ a_pc = "truncated"
    /\ IF ok
       THEN /\ a_agg' = a_agg \cup AggSelect(a_raw)
            /\ a_src' = a_raw
            /\ a_pc' = "inserted"
            /\ UNCHANGED a_last
       ELSE /\ a_pc' = "sleep"
            /\ a_last' = "failed"
            /\ UNCHANGED <<a_agg, a_src>>
    /\ UNCHANGED a_raw
    /\ UNCHANGED notAgg

\* statement 3: SELECT count() FROM siem.alerts_agg, and the return
A_Count(ok) ==
    /\ a_pc = "inserted"
    /\ a_pc' = "sleep"
    /\ a_last' = IF ok THEN "ok" ELSE "failed"
    /\ UNCHANGED <<a_raw, a_agg, a_src>>
    /\ UNCHANGED notAgg

A_Step == \E ok \in BOOLEAN : A_Truncate(ok) \/ A_InsertSelect(ok) \/ A_Count(ok)

AggNext == A_Alert \/ A_Step

----------------------------------------------------------------------------
(* Batch correlator: services/batch_corr/worker.py                         *)

\* the token of sql_template.replace
WindowToken == <<"{", "W", "I", "N", "D", "O", "W", "_", "S", "}">>

\* The pieces the templates of the model are made of: the token, the token in
\* lower case, a brace, and a piece of SQL
LowerToken == <<"{", "w", "i", "n", "d", "o", "w", "_", "s", "}">>
Brace == <<"{">>
SqlText == <<"q">>

RECURSIVE Flatten(_)
Flatten(pieces) ==
    IF pieces = <<>> THEN <<>> ELSE Head(pieces) \o Flatten(Tail(pieces))

TemplatePieces ==
    { <<SqlText>>,
      <<SqlText, WindowToken, SqlText>>,
      <<WindowToken, Brace, WindowToken>>,
      <<LowerToken, WindowToken>> }

\* id, window_s and sql_template of the rows of correlation_rules_batch
BatchRuleIds == {1, 2}
BatchWindows == {5, 60}
BatchRows ==
    [enabled : {1}, window_s : BatchWindows,
     sql_template : {Flatten(p) : p \in TemplatePieces}]
    \cup [enabled : {0}, window_s : {60}, sql_template : {Flatten(<<SqlText>>)}]
BatchTables == UNION { [ids -> BatchRows] : ids \in SUBSET BatchRuleIds }

MaxTicks == 2

\* _load_rules: WHERE enabled = 1 ORDER BY id
RECURSIVE LoadRules(_, _)
LoadRules(table, ids) ==
    IF ids = {} THEN <<>>
    ELSE LET id == Min(ids)
         IN  (IF table[id].enabled = 1
              THEN <<[id |-> id, window_s |-> table[id].window_s,
                      sql_template |-> table[id].sql_template]>>
              ELSE <<>>)
             \o LoadRules(table, ids \ {id})

\* text.replace(old, new) that stops after the first occurrence
RECURSIVE ReplaceFirst(_, _, _)
ReplaceFirst(text, old, new) ==
    IF Len(text) < Len(old) THEN text
    ELSE IF SubSeq(text, 1, Len(old)) = old
         THEN new \o SubSeq(text, Len(old) + 1, Len(text))
         ELSE <<Head(text)>> \o ReplaceFirst(Tail(text), old, new)

\* text.replace(old, new): every occurrence, from the left
RECURSIVE Replace(_, _, _)
Replace(text, old, new) ==
    IF Len(text) < Len(old) THEN text
    ELSE IF SubSeq(text, 1, Len(old)) = old
         THEN new \o Replace(SubSeq(text, Len(old) + 1, Len(text)), old, new)
         ELSE <<Head(text)>> \o Replace(Tail(text), old, new)

\* the for loop of _run_rules_once from rule i on; execOk[id]: client.execute
\* of the statement of rule id returns.  The except branch logs.
RECURSIVE ExecRules(_, _, _, _)
ExecRules(rules, i, execOk, stmts) ==
    IF i > Len(rules) THEN stmts
    ELSE LET final_sql ==
                 Replace(rules[i].sql_template, WindowToken,
                         Decimal(rules[i].window_s))
         IN  ExecRules(rules, i + 1, execOk,
                       Append(stmts, [rule_id |-> rules[i].id, sql |-> final_sql,
                                      ok |-> execOk[rules[i].id]]))

NoLog == [table |-> <<>>, stmts |-> <<>>]

notBatch == <<pipelineVars, ip_call, aggVars, raceVars, lastVars>>

BatchInit ==
    /\ bc_pc = "run"
    /\ bc_ticks = 0
    /\ bc_log = NoLog
    /\ bc_failed = FALSE

\* one iteration of run: _run_rules_once, then the sleep.  table is the rows
\* of correlation_rules_batch; when loadOk is false _load_rules raises, and
\* nothing catches it
BC_RunRulesOnce(table, loadOk, execOk) ==
    /\ bc_pc = "run"
    /\ bc_ticks < MaxTicks
    /\ IF ~loadOk
       THEN /\ bc_pc' = "dead"
            /\ bc_log' = NoLog
            /\ bc_failed' = (bc_failed \/
                             \E i \in 1..Len(bc_log.stmts) : ~bc_log.stmts[i].ok)
            /\ UNCHANGED bc_ticks
       ELSE /\ bc_log' = [table |-> table,
                          stmts |-> ExecRules(LoadRules(table, DOMAIN table), 1,
                                              execOk, <<>>)]
            /\ bc_ticks' = bc_ticks + 1
            /\ bc_failed' = (bc_failed \/
                             \E i \in 1..Len(bc_log.stmts) : ~bc_log.stmts[i].ok)
            /\ UNCHANGED bc_pc
    /\ UNCHANGED notBatch

BC_Run ==
    \E table \in BatchTables, loadOk \in BOOLEAN :
        \E execOk \in [DOMAIN table -> BOOLEAN] :
            BC_RunRulesOnce(table, loadOk, execOk)

BatchNext == BC_Run

----------------------------------------------------------------------------
(* normalizer: load_rules and the rules it gives to apply_rules *)

notLoad == <<earlyVars, ruleLoadVars, e_call, redeliverVars, t_run>>

\* an expression of uem_mapping that jmespath.compile rejects
InvalidExpr == [k |-> "invalid", name |-> "", v |-> ""]

\* jmespath.compile(expr) raises
CompileRaises(expr) == expr.k = "invalid"

\* a row of siem.normalizer_rules; json tells what json.loads(uem_mapping)
\* gives: "object" (a dict, its items in entries), "list" or "bad" (it raises)
NormRuleRow(id, priority, enabled, source_type, json, entries) ==
    [id |-> id, priority |-> priority, enabled |-> enabled,
     source_type |-> source_type, event_matcher |-> "", json |-> json,
     entries |-> entries]

NormRulePool ==
    { NormRuleRow(1, 2, 1, "syslog", "object",
          [p \in {"event.provider", "event.original", "event.category"} |->
              IF p = "event.provider" THEN LiteralExpr("")
              ELSE IF p = "event.original" THEN InvalidExpr
              ELSE LiteralExpr("auth")]),
      NormRuleRow(2, 1, 1, "http_json", "object",
          [p \in {"event.provider", "user.name"} |->
              IF p = "event.provider" THEN LiteralExpr("second")
              ELSE FieldExpr("user")]),
      NormRuleRow(3, 0, 0, "syslog", "object",
          [p \in {"event.provider"} |-> LiteralExpr("disabled")]),
      NormRuleRow(4, 0, 1, "syslog", "bad", EmptyDict),
      NormRuleRow(5, 1, 1, "syslog", "list", EmptyDict),
      NormRuleRow(6, 1, 1, "syslog", "object",
          [p \in {"event.category"} |-> InvalidExpr]) }

\* the versions of siem.normalizer_rules
NormTables == SUBSET NormRulePool

\* ORDER BY priority ASC, id ASC
RowBefore(a, b) ==
    a.priority < b.priority \/ (a.priority = b.priority /\ a.id < b.id)

\* the rows of the SELECT: WHERE enabled = 1 ORDER BY priority ASC, id ASC
RECURSIVE SelectRules(_)
SelectRules(table) ==
    LET enabled == {r \in table : r.enabled = 1}
    IN  IF enabled = {} THEN <<>>
        ELSE LET first == CHOOSE r \in enabled :
                              \A o \in enabled \ {r} : RowBefore(r, o)
             IN  <<first>> \o SelectRules(table \ {first})

\* a compile loop that gives up the whole mapping at the first failure
CompileMappingAllOrNothing(entries) ==
    IF \E f \in DOMAIN entries : CompileRaises(entries[f]) THEN EmptyDict
    ELSE entries

\* load_rules, the loop over mapping_dict.items(): an entry whose expression
\* does not compile is logged and left out
CompileMapping(entries) ==
    [f \in {g \in DOMAIN entries : ~CompileRaises(entries[g])} |-> entries[f]]

\* load_rules, the loop over the rows: a row whose uem_mapping is not the
\* JSON of an object is skipped
RECURSIVE LoadRows(_, _)
LoadRows(rows, i) ==
    IF i > Len(rows) THEN <<>>
    ELSE (IF rows[i].json # "object" THEN <<>>
          ELSE <<[id |-> rows[i].id, priority |-> rows[i].priority,
                  source_type |-> rows[i].source_type,
                  event_matcher_expr |-> rows[i].event_matcher,
                  compiled_mapping |-> CompileMapping(rows[i].entries)]>>)
         \o LoadRows(rows, i + 1)

\* load_rules(settings) when the table is table
NormLoadRules(table) == LoadRows(SelectRules(table), 1)

MaxLoadRaw == 2

LoadInit ==
    /\ nl_pc = "created"
    /\ nl_table = {}
    /\ nl_rules = <<>>
    /\ nl_raw = <<>>
    /\ nl_last_id = 0
    /\ nl_published = <<>>
    /\ nl_origin = <<>>
    /\ nl_failed = {}

\* init: load_rules returns the rules of the table
NL_Init ==
    /\ nl_pc = "created"
    /\ nl_pc' = "running"
    /\ \E table \in NormTables :
           /\ nl_table' = table
           /\ nl_rules' = NormLoadRules(table)
    /\ UNCHANGED <<nl_raw, nl_last_id, nl_published, nl_origin, nl_failed>>
    /\ UNCHANGED notLoad

\* the ingress appends an entry to RAW
NL_Ingest ==
    /\ Len(nl_raw) < MaxLoadRaw
    /\ \E ev \in CursorRawEvents : nl_raw' = Append(nl_raw, ev)
    /\ UNCHANGED <<nl_pc, nl_table, nl_rules, nl_last_id, nl_published, nl_origin,
                   nl_failed>>
    /\ UNCHANGED notLoad

\* One iteration of run that read entries: each sets last_id, is given to
\* apply_rules with self._rules and, unless the return is None, appended to
\* NORMALIZED (the XADD succeeds or raises).
NL_Batch ==
    /\ nl_pc = "running"
    /\ nl_last_id < Len(nl_raw)
    /\ LET ids == XRead(nl_raw, nl_last_id, NormBatchSize)
           last == nl_last_id + Cardinality(ids)
       IN  \E xaddFail \in SUBSET ids :
           LET acc == NormMessages([published |-> nl_published,
                                    origins |-> nl_origin, rows |-> <<>>],
                                   nl_rules, nl_raw, nl_last_id + 1, last, xaddFail)
           IN  /\ nl_last_id' = LastIdAfter(nl_last_id, ids, xaddFail)
               /\ nl_published' = acc.published
               /\ nl_origin' = acc.origins
               /\ nl_failed' = nl_failed \cup xaddFail
    /\ UNCHANGED <<nl_pc, nl_table, nl_rules, nl_raw>>
    /\ UNCHANGED notLoad

LoadNext == NL_Init \/ NL_Ingest \/ NL_Batch

----------------------------------------------------------------------------
(* filter and stream correlator: load_filter_rules, load_stream_rules and  *)
(* the rules they give to apply_rules and to the correlator's loop         *)

notRuleLoad == <<earlyVars, loadVars, e_call, redeliverVars, t_run>>

\* expression texts of the rule tables: one that parses, the empty one, and
\* two that parse_expr rejects (an operator without right operand, a string
\* without closing quote)
TextDangling == TextA \o <<" ", "a", "n", "d">>
TextUnterminated == <<"a", " ", "=", "=", " ", "'", "1">>

\* a loader for which a rule without usable expression matches every event
ExprAstMatchAll(expr) ==
    IF expr = <<>> \/ ParseExpr(expr).raises
    THEN Or(Cmp("a", "==", "1"), Cmp("a", "!=", "1"))
    ELSE ParseExpr(expr).ast

\* expr_ast of a row: parse_expr(expr) if expr else None, None when
\* parse_expr raises
ExprAst(expr) ==
    IF expr = <<>> THEN NoAst
    ELSE IF ParseExpr(expr).raises THEN NoAst
    ELSE ParseExpr(expr).ast

\* the enabled rows of siem.filter_rules
FilterRowPool ==
    { [id |-> 1, expr |-> TextDangling, action |-> "drop", tags |-> <<>>],
      [id |-> 2, expr |-> <<>>, action |-> "tag", tags |-> <<"n">>],
      [id |-> 3, expr |-> TextA, action |-> "tag", tags |-> <<"a">>],
      [id |-> 4, expr |-> TextUnterminated, action |-> "pass", tags |-> <<>>],
      [id |-> 5, expr |-> TextC, action |-> "drop", tags |-> <<>>] }

\* the enabled rows of siem.correlation_rules_stream
StreamRowPool ==
    { [id |-> 1, expr |-> TextA, window_s |-> 2, threshold |-> 2],
      [id |-> 2, expr |-> TextDangling, window_s |-> 1, threshold |-> 1],
      [id |-> 3, expr |-> TextA, window_s |-> 0, threshold |-> 1],
      [id |-> 4, expr |-> TextA, window_s |-> 1, threshold |-> 0] }

RuleLoadIds == {r.id : r \in StreamRowPool}
RuleLoadKeys == RuleLoadIds \X {"u1"}

\* ORDER BY priority ASC, id ASC (the priority of a filter row is its id) and
\* ORDER BY id
RECURSIVE RowsById(_)
RowsById(table) ==
    IF table = {} THEN <<>>
    ELSE LET first == CHOOSE r \in table : \A o \in table : r.id <= o.id
         IN  <<first>> \o RowsById(table \ {first})

\* load_filter_rules on the rows in their order
LoadFilterRules(rows) ==
    [i \in 1..Len(rows) |->
        FilterRule(rows[i].id, rows[i].action, rows[i].tags, ExprAst(rows[i].expr))]

\* load_stream_rules on the rows in their order
LoadStreamRules(rows) ==
    [i \in 1..Len(rows) |->
        StreamCorrRule(rows[i].id, "threshold", rows[i].window_s,
                       rows[i].threshold, ExprAst(rows[i].expr), "user")]

\* what the loaders return for each version of their table
FilterRulesOf ==
    [table \in SUBSET FilterRowPool |-> LoadFilterRules(RowsById(table))]
StreamRulesOf ==
    [table \in SUBSET StreamRowPool |-> LoadStreamRules(RowsById(table))]

RuleLoadFilterEvents ==
    { EmptyDict, [a |-> "1"], [a |-> "1", c |-> "x"], [a |-> "2", c |-> ""],
      [c |-> "x", tags |-> "t0"] }

RuleLoadStreamEvents ==
    { [a |-> "1", user |-> "u1"], [a |-> "2", user |-> "u1"], [a |-> "1"] }

MaxLoadMsgs == 2
MaxLoadTime == 2

NoCall ==
    [kind |-> "none", event |-> EmptyDict, msg |-> 0, now |-> 0,
     decision |-> "none", result |-> EmptyDict]

RuleLoadInit ==
    /\ rl_kind = "none"
    /\ rl_table = {}
    /\ rl_rules = <<>>
    /\ rl_st = [z |-> [k \in RuleLoadKeys |-> {}],
                last |-> [k \in RuleLoadKeys |-> NoKey],
                alerts |-> <<>>, emitted |-> {}]
    /\ rl_next = 1
    /\ rl_clock = 1
    /\ rl_call = NoCall

\* FilterWorker.init and _reload_rules_periodically: self._rules =
\* load_filter_rules()
RL_LoadFilter ==
    /\ rl_kind \in {"none", "filter"}
    /\ rl_kind' = "filter"
    /\ \E table \in SUBSET FilterRowPool :
           /\ rl_table' = table
           /\ rl_rules' = FilterRulesOf[table]
    /\ rl_call' = NoCall
    /\ UNCHANGED <<rl_st, rl_next, rl_clock>>
    /\ UNCHANGED notRuleLoad

\* StreamCorrWorker.init and _reload_rules_periodically: self._rules =
\* load_stream_rules()
RL_LoadStream ==
    /\ rl_kind \in {"none", "stream"}
    /\ rl_kind' = "stream"
    /\ \E table \in SUBSET StreamRowPool :
           /\ rl_table' = table
           /\ rl_rules' = StreamRulesOf[table]
    /\ UNCHANGED <<rl_st, rl_next, rl_clock, rl_call>>
    /\ UNCHANGED notRuleLoad

\* decision, final_event = self.apply_rules(event)
RL_ApplyRules ==
    /\ rl_kind = "filter"
    /\ \E ev \in RuleLoadFilterEvents :
           LET r == ApplyRules(rl_rules, ev)
           IN  rl_call' = [NoCall EXCEPT !.kind = "filter", !.event = ev,
                                        !.decision = r.decision,
                                        !.result = r.result]
    /\ UNCHANGED <<rl_kind, rl_table, rl_rules, rl_st, rl_next, rl_clock>>
    /\ UNCHANGED notRuleLoad

\* the correlator's loop over self._rules for one entry, at a reading of the
\* clock not before the last one
RL_Correlate ==
    /\ rl_kind = "stream"
    /\ rl_next <= MaxLoadMsgs
    /\ \E ev \in RuleLoadStreamEvents, now \in rl_clock..MaxLoadTime :
           /\ rl_st' = CorrRules(rl_st, rl_rules, 1, rl_next, ev, now)
           /\ rl_clock' = now
           /\ rl_call' = [NoCall EXCEPT !.kind = "corr", !.event = ev,
                                        !.msg = rl_next, !.now = now]
    /\ rl_next' = rl_next + 1
    /\ UNCHANGED <<rl_kind, rl_table, rl_rules>>
    /\ UNCHANGED notRuleLoad

RuleLoadNext == RL_LoadFilter \/ RL_LoadStream \/ RL_ApplyRules \/ RL_Correlate

----------------------------------------------------------------------------
(* eval_expr on the trees parse_expr builds                                *)

notEval == <<earlyVars, loadVars, ruleLoadVars, redeliverVars, t_run>>

\* comparisons of a plain and of a dotted field name
EvalCmps ==
    { Cmp(f, op, v) : f \in {"f", "b.c"}, op \in {"==", "!="}, v \in {"", "v"} }

\* the trees of one, two and three comparisons, nested to the left
EvalPairs == UNION { {And(l, r), Or(l, r)} : l \in EvalCmps, r \in EvalCmps }
EvalTriples == UNION { {And(l, r), Or(l, r)} : l \in EvalPairs, r \in EvalCmps }
EvalAsts == {NoAst} \cup EvalCmps \cup EvalPairs \cup EvalTriples

\* events: with or without the fields, a field with a null value, and an
\* event with the keys b and c but no key b.c
EvalEvents ==
    UNION { [keys -> {"", "v"}] : keys \in SUBSET {"f", "b.c"} }
        \cup { [f |-> None], [b |-> "v", c |-> "v"], [f |-> "w", b |-> "v"] }

EvalInit == e_call = [ast |-> NoAst, event |-> EmptyDict, ret |-> "nocall"]

\* a call eval_expr(ast, event) and its return
E_EvalExpr ==
    /\ e_call.ret = "nocall"
    /\ \E ast \in EvalAsts, ev \in EvalEvents :
           e_call' = [ast |-> ast, event |-> ev,
                      ret |-> IF EvalRaises(ast) THEN "raise"
                              ELSE IF EvalExpr(ast, ev) THEN "true" ELSE "false"]
    /\ UNCHANGED notEval

\* the caller goes on to the next rule or the next event
E_Next ==
    /\ e_call.ret # "nocall"
    /\ e_call' = [ast |-> NoAst, event |-> EmptyDict, ret |-> "nocall"]
    /\ UNCHANGED notEval

EvalNext == E_EvalExpr \/ E_Next

----------------------------------------------------------------------------
(* _check_threshold_and_should_alert called again with an id it has seen   *)

notRedeliver == <<earlyVars, loadVars, ruleLoadVars, e_call, t_run>>

RedeliverRule == StreamCorrRule(1, "threshold", 2, 2, IsLogin, "user")
RedeliverKey == <<1, "u1">>

MaxRedeliverIds == 3
MaxRedeliverTime == 4

RedeliverInit ==
    /\ z_st = [z |-> [k \in {RedeliverKey} |-> {}],
               last |-> [k \in {RedeliverKey} |-> NoKey]]
    /\ z_clock = 1
    /\ z_seen = [id \in 1..MaxRedeliverIds |-> 0]
    /\ z_call = [msg |-> 0, now |-> 0, count |-> 0, alert |-> FALSE,
                 again |-> FALSE]

\* a call for a matching event of entity u1 with message id msg_id, new or
\* seen before, at a reading of the clock not before the last one
Z_Check ==
    /\ \E msg_id \in 1..MaxRedeliverIds, now \in z_clock..MaxRedeliverTime :
           LET r == CheckThresholdAndShouldAlert(z_st, RedeliverRule, "u1",
                                                 msg_id, now)
           IN  /\ z_st' = [z |-> r.z, last |-> r.last]
               /\ z_clock' = now
               /\ z_seen' = [z_seen EXCEPT ![msg_id] = now]
               /\ z_call' = [msg |-> msg_id, now |-> now, count |-> r.count,
                             alert |-> r.alert, again |-> z_seen[msg_id] # 0]
    /\ UNCHANGED notRedeliver

RedeliverNext == Z_Check

----------------------------------------------------------------------------

Init ==
    /\ FilterInit /\ CorrInit /\ NormInit /\ WriterInit /\ WindowInit
    /\ ParseInit /\ ProcInit /\ RuleInit /\ CursorInit /\ GroupInit
    /\ IpInit /\ AggInit /\ BatchInit /\ RaceInit
    /\ LoadInit /\ RuleLoadInit /\ EvalInit /\ RedeliverInit /\ RestartInit

SpecFilter == Init /\ [][FilterNext]_vars

SpecParse == Init /\ [][ParseNext]_vars

SpecCorr == Init /\ [][CorrNext]_vars

SpecWindow == Init /\ [][WindowNext]_vars

SpecFrame == Init /\ [][FrameNext]_vars

\* two replicas of the stream correlator on one (rule, entity)
SpecRace == Init /\ [][RaceNext]_vars

SpecNorm == Init /\ [][NormNext]_vars

SpecWriter == Init /\ [][WriterNext]_vars

\* run loops for ever, and the column store accepts an insert that is
\* attempted again and again
SpecWriterLive ==
    SpecWriter /\ WF_vars(W_Batch) /\ SF_vars(W_Iteration(TRUE))

SpecCore == Init /\ [][CoreNext]_vars

\* the writer with a consumer group that may be created anew
SpecReplay == Init /\ [][ReplayNext]_vars

\* the writer and the batch correlator with calls that may raise
SpecEscape == Init /\ [][EscapeNext]_vars

\* the reload tasks interleaved with the readers of the rule lists
SpecReload == Init /\ [][RuleNext]_vars

\* the normalizer and the filter, each reading after its own cursor
SpecCursor == Init /\ [][CursorNext]_vars

\* the workers of the consumer groups started again and again
SpecGroup == Init /\ [][GroupNext]_vars

\* calls of ipv4_to_int
SpecIp == Init /\ [][IpNext]_vars

\* the alerts aggregator, the correlators that fill alerts_raw, and the
\* readers of alerts_agg
SpecAgg == Init /\ [][AggNext]_vars

\* the batch correlator, tick after tick
SpecBatch == Init /\ [][BatchNext]_vars

\* the normalizer with its rules loaded from the table
SpecLoad == Init /\ [][LoadNext]_vars

\* the filter's consume loop with rules that drop and tag
SpecPublish == Init /\ [][PublishNext]_vars

\* the window of one rule and entity under calls with repeated ids
SpecRedeliver == Init /\ [][RedeliverNext]_vars

\* the loops of the normalizer and of the filter go on reading, and a process
\* that was started loads its rules
SpecRestart ==
    /\ Init /\ [][RestartNext]_vars
    /\ WF_n_pc(NR_Init) /\ WF_n_last_id(NR_Advance) /\ WF_k_last_id(KR_Advance)

\* calls of eval_expr
SpecEval == Init /\ [][EvalNext]_vars

\* a filter or a stream correlator with its rules loaded from its table
SpecRuleLoad == Init /\ [][RuleLoadNext]_vars

----------------------------------------------------------------------------
(* Properties of the filter decision                                       *)

\* Indexes of the rules of the call in hand whose expression matches the event
FMatching ==
    { i \in 1..Len(f_argRules) :
        /\ f_argRules[i].expr_ast # NoAst
        /\ ~EvalRaises(f_argRules[i].expr_ast)
        /\ EvalExpr(f_argRules[i].expr_ast, f_argEvent) }

RECURSIVE FTagsOf(_, _)
\* the tags of the rules with index in S, from index i on, in list order
FTagsOf(S, i) ==
    IF i > Len(f_argRules) THEN <<>>
    ELSE (IF i \in S THEN f_argRules[i].tags ELSE <<>>) \o FTagsOf(S, i + 1)

\* pre-existing tags, then the given tags, comma-joined
FWithTags(event, tags) ==
    Put(event, "tags",
        IF Truthy(Get(event, "tags"))
        THEN Join(",", <<Get(event, "tags")>> \o tags)
        ELSE Join(",", tags))

\* C3 as stated: drop if any matching rule is a drop rule; otherwise tag, with
\* the tags of all matching tag rules after the pre-existing ones, if any
\* matching rule is a tag rule; otherwise pass with the event unchanged.
C3_AnyMatchDecides ==
    f_decision # "none" =>
        LET drops == { i \in FMatching : f_argRules[i].action = "drop" }
            tagged == { i \in FMatching : f_argRules[i].action = "tag" }
        IN  IF drops # {} THEN f_decision = "drop"
            ELSE IF tagged # {}
            THEN /\ f_decision = "tag"
                 /\ f_result = FWithTags(f_argEvent, FTagsOf(tagged, 1))
            ELSE f_decision = "pass" /\ f_result = f_argEvent

\* C3 amended: the first rule, in list order, whose expression matches and
\* whose action is drop, tag or pass decides alone: drop if it is a drop rule;
\* tag, with tags = the pre-existing tags then that rule's tags, comma-joined,
\* if it is a tag rule with a non-empty tag list; pass with the event unchanged
\* otherwise (no such rule, a pass rule, a tag rule without tags).
C3_FirstMatchDecides ==
    f_decision # "none" =>
        LET eff == { i \in FMatching : f_argRules[i].action \in {"drop", "tag", "pass"} }
        IN  IF eff = {} THEN f_decision = "pass" /\ f_result = f_argEvent
            ELSE LET rule == f_argRules[Min(eff)] IN
                 IF rule.action = "drop"
                 THEN f_decision = "drop" /\ f_result = f_argEvent
                 ELSE IF rule.action = "tag" /\ rule.tags # <<>>
                 THEN /\ f_decision = "tag"
                      /\ f_result = FWithTags(f_argEvent, rule.tags)
                 ELSE f_decision = "pass" /\ f_result = f_argEvent

\* a tag decision with pre-existing tags although a later matching rule drops
C3_Witness ==
    /\ f_decision = "tag"
    /\ f_result = [x |-> "1", tags |-> "t0,a"]
    /\ \E i \in FMatching : f_argRules[i].action = "drop"

\* C4: apply_rules is a function of (event, rule list): a call with the
\* arguments of the call before it returns what that call returned; and a call
\* leaves the caller's event dict and the rule list as they were passed.
C4_Pure ==
    [][ /\ (f_decision # "none" /\ f_decision' # "none"
            /\ f_argEvent' = f_argEvent /\ f_argRules' = f_argRules)
           => (f_decision' = f_decision /\ f_result' = f_result)
        /\ f_decision' # "none"
           => (f_event' = f_argEvent' /\ f_rules' = f_argRules' /\ f_rules' = f_rules)
      ]_vars

\* a call that returned a tagged copy while the caller's dict has no tags
C4_Witness ==
    /\ f_decision = "tag"
    /\ f_argEvent = [x |-> "1"]
    /\ f_result = [x |-> "1", tags |-> "a"]
    /\ f_event = [x |-> "1"]

----------------------------------------------------------------------------
(* Properties of the stream correlator                                     *)

----------------------------------------------------------------------------
(* Properties of the normalizer                                            *)

\* C5: every record published to NORMALIZED has a non-empty event.provider
\* and a non-empty event.original.
C5_ProviderAndOriginalNonEmpty ==
    \A i \in 1..Len(n_normalized) :
        /\ Truthy(Get(n_normalized[i], "event.provider"))
        /\ Truthy(Get(n_normalized[i], "event.original"))

\* what the first rule's mapping yields for field f on the raw event of the
\* last call (None: no value)
NMapped(f) ==
    LET m == n_call.rules[1].compiled_mapping IN
    IF f \notin DOMAIN m THEN None
    ELSE IF m[f].k = "field" THEN Get(n_call.raw, m[f].name)
    ELSE IF m[f].k = "literal" THEN m[f].v
    ELSE None

\* C10: with a non-empty rule list, the keys of the result are the keys of
\* the first rule's mapping plus event.provider and event.original; an empty
\* mapped event.provider falls back to the raw source_type, an empty mapped
\* event.original to the raw message, else to the stringified raw event; the
\* other fields hold the mapped values; an empty mapping on
\* {source_type: s, message: m} yields {event.provider: s, event.original: m}.
C10_KeysAndDefaults ==
    (n_call.ret # "nocall" /\ n_call.rules # <<>>) =>
        LET raw == n_call.raw
            uem == n_call.uem
            mapping == n_call.rules[1].compiled_mapping
        IN  /\ n_call.ret = "uem"
            /\ DOMAIN uem = (DOMAIN mapping) \cup {"event.provider", "event.original"}
            /\ uem["event.provider"] =
                  IF Truthy(NMapped("event.provider")) THEN NMapped("event.provider")
                  ELSE IF "source_type" \in DOMAIN raw THEN raw["source_type"] ELSE ""
            /\ uem["event.original"] =
                  IF Truthy(NMapped("event.original")) THEN NMapped("event.original")
                  ELSE IF "message" \in DOMAIN raw THEN raw["message"]
                  ELSE PyRepr(raw)
            /\ \A f \in (DOMAIN mapping) \ {"event.provider", "event.original"} :
                  uem[f] = NMapped(f)
            /\ (mapping = EmptyDict /\ DOMAIN raw = {"source_type", "message"})
                  => uem = [q \in {"event.provider", "event.original"} |->
                               IF q = "event.provider" THEN raw["source_type"]
                               ELSE raw["message"]]

\* the call of scenario 1, and a call whose mapping gave null for a field
C10_Witness ==
    /\ n_call.ret = "uem"
    /\ n_call.rules[1].compiled_mapping = EmptyDict
    /\ n_call.raw = [source_type |-> "http_json", message |-> "x"]
    /\ n_call.uem = [q \in {"event.provider", "event.original"} |->
                        IF q = "event.provider" THEN "http_json" ELSE "x"]

----------------------------------------------------------------------------
(* Properties of the writer                                                *)

\* C6: the writer's read position on FILTERED never decreases and never
\* advances past an entry that was delivered and is not acknowledged: after
\* every iteration of the loop, every entry behind the position is
\* acknowledged.
C6_PositionNeverPassesUnacked ==
    [][ /\ w_pos' >= w_pos
        /\ \A id \in 1..w_pos' : id \in w_acked' ]_vars

\* C7: the writer acknowledges a message only once the row built from it is
\* in an insert that returned, or when the construction of its row raised.
C7_AckOnlyAfterInsert ==
    \A id \in w_acked : id \in w_inserted \/ id \in w_raised

\* C8: every well-formed entry of FILTERED is eventually inserted into
\* events, an insert that failed being tried again on the same entries.
C8_EveryWellFormedEntryInserted ==
    \A id \in 1..MaxW :
        (id <= Len(w_log) /\ ~BuildRowRaises(w_log[id]))
            ~> (id \in w_inserted)

BadPort(id) ==
    "source.port" \in DOMAIN w_log[id] /\ w_log[id]["source.port"] = "ssh"

\* C28: in an iteration of the writer whose broker calls return, an entry with
\* a port that is not an integer is acknowledged, is not left pending, is not
\* inserted and does not hold the group back; the other entries of the batch
\* go the way of a batch without it: inserted and acknowledged when the
\* insert returns, pending when it raises.  No such entry is ever inserted.
C28_BadRecordSkipped ==
    /\ [][ w_pos' > w_pos =>
             LET batch == (w_pos + 1)..w_pos'
             IN  /\ w_pos' = Min({w_pos + WBatchSize, Len(w_log)})
                 /\ \A id \in batch :
                       IF BadPort(id)
                       THEN /\ id \in w_acked'
                            /\ id \notin w_pel'
                            /\ id \notin w_inserted'
                       ELSE \/ id \in w_inserted' /\ id \in w_acked'
                            \/ /\ id \in w_pel'
                               /\ w_events' = w_events
                               /\ \A other \in batch :
                                     ~BadPort(other) => other \in w_pel' ]_vars
    /\ [](\A id \in 1..Len(w_log) :
             BadPort(id) =>
                 /\ id \notin w_inserted
                 /\ \A row \in w_events : row.event_id # MsgId(id))

\* the first entry had a bad port and was acknowledged without a row; the
\* second was inserted and acknowledged: nothing is pending
C28_Witness ==
    /\ w_pos = 2
    /\ BadPort(1) /\ ~BadPort(2)
    /\ w_raised = {1}
    /\ w_inserted = {2}
    /\ w_acked = {1, 2}
    /\ w_pel = {}
    /\ Cardinality(w_events) = 1

----------------------------------------------------------------------------
(* Properties of the correlator's sliding window                           *)

\* the entries read in the window that ends at now, counted from the history
WindowSize(times, now, window_s) ==
    Cardinality({i \in 1..Len(times) : times[i] > now - window_s})

\* the times of the scenario: t = 0, 10, 20, 30, 80, 90, 100
ScenarioTimes ==
    [i \in 1..7 |-> WindowT0 + <<0, 10, 20, 30, 80, 90, 100>>[i]]

C26_OnlyMatchingEventsChangeState ==
    [][ LET n == s_pos' - s_pos
            batch == SubSeq(s_stream, 1, n)
            Concerned(key) ==
                \E i \in 1..n, j \in 1..Len(s_rules) :
                    /\ s_rules[j].id = key[1]
                    /\ s_rules[j].pattern = "threshold"
                    /\ s_rules[j].expr_ast = IsLogin
                    /\ batch[i].type = "login"
                    /\ s_rules[j].entity_field \in DOMAIN batch[i]
                    /\ batch[i][s_rules[j].entity_field] = key[2]
                    /\ key[2] # ""
        IN  /\ \A key \in CorrKeys :
                  (s_zset'[key] # s_zset[key] \/ s_last'[key] # s_last[key])
                      => Concerned(key)
            /\ Len(s_alerts') >= Len(s_alerts)
            /\ \A a \in (Len(s_alerts) + 1)..Len(s_alerts') :
                  /\ <<s_alerts'[a].rule_id, s_alerts'[a].entity_key>> \in CorrKeys
                  /\ Concerned(<<s_alerts'[a].rule_id, s_alerts'[a].entity_key>>) ]_vars

\* three entries were read under the three rules, of which one entry was a
\* login of u1: the window of rule 1 and u1 holds it, and nothing else holds
\* anything
C26_Witness ==
    /\ s_pos = 3
    /\ Len(s_rules) = 3
    /\ Cardinality(s_zset[<<1, "u1">>]) = 1
    /\ \A key \in CorrKeys \ {<<1, "u1">>} : s_zset[key] = {} /\ s_last[key] = NoKey

----------------------------------------------------------------------------
(* The first effective rule of the filter                                  *)

\* the rules of the scenarios: tag [a], tag [b, c] and drop, each matching
\* the event {x: "1"}
TagA(i) == FilterRule(i, "tag", <<"a">>, X1)
TagBC(i) == FilterRule(i, "tag", <<"b", "c">>, Cmp("x", "!=", "2"))
DropX1(i) == FilterRule(i, "drop", <<>>, X1)

\* C13: the first rule in list order with an expression that matches and an
\* action among drop, tag, pass decides the call as if it were the only rule
\* of the list.  Two matching tag rules give the tags of the first; a
\* matching tag rule before a matching drop rule gives tag, and after it drop.
C13_FirstEffectiveRuleAlone ==
    f_decision # "none" =>
        LET eff == { i \in FMatching :
                       f_argRules[i].action \in {"drop", "tag", "pass"} }
        IN  /\ eff # {} =>
                  LET alone == ApplyRules(<<f_argRules[Min(eff)]>>, f_argEvent)
                  IN  f_decision = alone.decision /\ f_result = alone.result
            /\ f_argEvent = [x |-> "1"] =>
                  /\ f_argRules = <<TagA(1), TagBC(2)>> =>
                        f_decision = "tag" /\ f_result = [x |-> "1", tags |-> "a"]
                  /\ f_argRules = <<TagA(1), DropX1(2)>> => f_decision = "tag"
                  /\ f_argRules = <<DropX1(1), TagA(2)>> => f_decision = "drop"

\* the call of the first scenario: two matching tag rules, the tags of the
\* first alone
C13_Witness ==
    /\ f_argEvent = [x |-> "1"]
    /\ f_argRules = <<TagA(1), TagBC(2)>>
    /\ f_decision = "tag"
    /\ Get(f_result, "tags") = "a"

----------------------------------------------------------------------------
(* Properties of parse_expr                                                *)

\* the tree of a comparison text, and the node of an operator text
CmpAst(text) ==
    IF text = TextA THEN Cmp("a", "==", "1")
    ELSE IF text = TextBC THEN Cmp("b.c", "==", "1")
    ELSE Cmp("c", "!=", "")
OpNode(text, l, r) == IF text = TextAnd THEN And(l, r) ELSE Or(l, r)

\* events over the fields of the comparisons
ParseEvents == [{"a", "b.c", "c"} -> {"1", ""}]

\* C14: 'c1 o1 c2 o2 c3' parses to (o2, (o1, c1, c2), c3), with no precedence
\* between and and or; 'a or b and c' evaluates as (a or b) and c; the text
\* event.provider == 'http_json' and event.category == 'test' parses to
\* And(Cmp(event.provider, ==, http_json), Cmp(event.category, ==, test)).
C14_LeftNested ==
    p_call.ret # "nocall" =>
        /\ \A c \in [1..3 -> CmpTexts], o \in [1..2 -> OpTexts] :
              p_call.expr = ChainText(c, o, 3) =>
                  /\ p_call.ret = "ast"
                  /\ p_call.ast = OpNode(o[2],
                                         OpNode(o[1], CmpAst(c[1]), CmpAst(c[2])),
                                         CmpAst(c[3]))
        /\ p_call.expr = TextA \o TextOr \o TextBC \o TextAnd \o TextC =>
              \A ev \in ParseEvents :
                  EvalExpr(p_call.ast, ev)
                      = ((ev["a"] = "1" \/ ev["b.c"] = "1") /\ ev["c"] # "")
        /\ p_call.expr = ScenarioText =>
              /\ p_call.ret = "ast"
              /\ p_call.ast = And(Cmp("event.provider", "==", "http_json"),
                                  Cmp("event.category", "==", "test"))

\* 'a or b and c' was parsed: the root is the and, its left child the or
C14_Witness ==
    /\ p_call.expr = TextA \o TextOr \o TextBC \o TextAnd \o TextC
    /\ p_call.ret = "ast"
    /\ p_call.ast.t = "and"
    /\ p_call.ast.l.t = "or"

\* the token types of a text, when _tokenize returns
TokenTypes(expr) ==
    LET tk == Tokenize(expr, 1, <<>>)
    IN  [i \in 1..Len(tk.tokens) |-> tk.tokens[i][1]]

\* cmp ((and | or) cmp)* with cmp = NAME OP STRING
IsCmpChain(types) ==
    /\ Len(types) % 4 = 3
    /\ \A i \in 1..Len(types) :
          types[i] \in (CASE i % 4 = 1 -> {"NAME"}
                          [] i % 4 = 2 -> {"OP"}
                          [] i % 4 = 3 -> {"STRING"}
                          [] OTHER -> {"AND", "OR"})

\* the comparisons of a tree
RECURSIVE CmpCount(_)
CmpCount(ast) ==
    IF ast.t = "cmp" THEN 1
    ELSE IF ast.t \in {"and", "or"} THEN CmpCount(ast.l) + CmpCount(ast.r)
    ELSE 0

\* the chains of comparisons followed by something that is no part of a chain
ChainsWithTail ==
    UNION { { ChainText(c, o, n) \o tail :
                c \in [1..n -> CmpTexts], o \in [1..(n - 1) -> OpTexts],
                tail \in TailTexts \ {<<>>} } : n \in 1..MaxCmps }

\* C15: parse_expr returns a tree exactly for the texts whose tokens are
\* cmp ((and | or) cmp)*, and the tree holds every comparison of the text;
\* it raises for an empty or blank text, for an unterminated string, for a
\* token after the last complete comparison, and for an and / or that no
\* complete comparison follows.
C15_TreeOnlyForChains ==
    p_call.ret # "nocall" =>
        LET expr == p_call.expr
            tk == Tokenize(expr, 1, <<>>)
            quotes == Cardinality({i \in 1..Len(expr) : expr[i] = "'"})
        IN  /\ p_call.ret = "ast" <=> (~tk.raises /\ IsCmpChain(TokenTypes(expr)))
            /\ p_call.ret = "ast" =>
                  4 * CmpCount(p_call.ast) = Len(tk.tokens) + 1
            /\ p_call.ret = "raise" => p_call.ast = NoAst
            /\ (\A i \in 1..Len(expr) : expr[i] \in SpaceChars) => p_call.ret = "raise"
            /\ quotes % 2 = 1 => p_call.ret = "raise"
            /\ expr \in ChainsWithTail => p_call.ret = "raise"

\* a complete comparison followed by one more token was refused
C15_Witness ==
    /\ p_call.expr = TextA \o <<" ", "c">>
    /\ p_call.ret = "raise"

----------------------------------------------------------------------------
(* Properties of the worker loops                                          *)

\* C16: no failure of a broker call, of a column-store call or of a row
\* construction ends a worker: every worker stays in its loop.
C16_NoFailureEscapes == \A w \in Workers : x_pc[w] # "dead"

----------------------------------------------------------------------------
(* Properties of the rule reload                                           *)

IsPrefix(p, list) == Len(p) <= Len(list) /\ p = SubSeq(list, 1, Len(p))

Versions == 0..MaxVersions

\* C17: a reload that fails leaves the worker's rule list as it was, in the
\* filter and in the stream correlator; the events that follow are evaluated
\* against that list; the task is still there to reload at its next tick.
C17_FailedReloadKeepsRules ==
    /\ [][\A w \in RuleWorkers :
            r_fails'[w] # r_fails[w] => r_rules'[w] = r_rules[w]]_vars
    /\ [][/\ r_applied'["filter"] # r_applied["filter"]
             => IsPrefix(r_applied'["filter"], r_rules["filter"])
          /\ ~r_loop["stream_corr"].active /\ r_loop'["stream_corr"].active
             => r_loop'["stream_corr"].list = r_rules["stream_corr"]]_vars
    /\ [](\A w \in RuleWorkers :
            /\ \E v \in Versions : r_rules[w] = RuleList(v)
            /\ r_fails[w] > 0 => ENABLED R_Reload(w, TRUE))

\* both workers had a failed reload while the table was at a newer version
\* than their list, and evaluated an event afterwards
C17_Witness ==
    /\ r_store = 1
    /\ \A w \in RuleWorkers :
          r_fails[w] > 0 /\ r_rules[w] = RuleList(0) /\ r_applied[w] # <<>>

\* C18: the rules visited for one event are those of one version of the rule
\* list, in order, and all of them when the loop runs to its end; the
\* worker's list is always a complete version.
C18_OneVersionPerEvent ==
    /\ \A w \in RuleWorkers :
          /\ \E v \in Versions : r_rules[w] = RuleList(v)
          /\ \E v \in Versions : IsPrefix(r_applied[w], RuleList(v))
    /\ ~r_loop["stream_corr"].active /\ r_applied["stream_corr"] # <<>>
          => \E v \in Versions : r_applied["stream_corr"] = RuleList(v)
    /\ r_loop["stream_corr"].active
          => r_applied["stream_corr"]
               = SubSeq(r_loop["stream_corr"].list, 1, r_loop["stream_corr"].idx)

\* the correlator's list was replaced while its loop was part-way through the
\* older list
C18_Witness ==
    LET loop == r_loop["stream_corr"] IN
    /\ loop.active
    /\ loop.idx > 0 /\ loop.idx < Len(loop.list)
    /\ r_rules["stream_corr"] # loop.list

----------------------------------------------------------------------------
(* Properties of the cursor workers                                        *)

\* self._last_id of worker w, and the stream it publishes to
LastId(w) == IF w = "normalizer" THEN n_last_id ELSE k_last_id
Published(w) == IF w = "normalizer" THEN n_normalized ELSE k_filtered

\* C19: in the normalizer and in the filter a read that fails changes neither
\* last_id nor the downstream stream; the read that follows asks for the
\* entries after the same id; and every entry up to last_id was taken from a
\* read, none is passed over.
C19_FailedReadKeepsCursor ==
    /\ [][\A w \in CursorWorkers :
            /\ k_req'[w].ok = FALSE
               => LastId(w)' = LastId(w) /\ Published(w)' = Published(w)
            /\ k_req[w].ok = FALSE /\ k_req'[w] # k_req[w]
               => k_req'[w].after = k_req[w].after]_vars
    /\ [](\A w \in CursorWorkers :
            /\ k_seen[w] = 1..LastId(w)
            /\ k_req[w].after <= LastId(w)
            /\ k_req[w].ok = FALSE => k_req[w].after = LastId(w))

\* in both workers the last read failed while entries were waiting after
\* last_id, the normalizer having taken an entry before
C19_Witness ==
    /\ k_req["normalizer"] = [after |-> 1, ok |-> FALSE]
    /\ Len(n_raw) > 1
    /\ k_req["filter"].ok = FALSE
    /\ Len(n_normalized) > k_last_id

----------------------------------------------------------------------------
(* Properties of the consumer groups                                       *)

\* C20: when xgroup_create answers BUSYGROUP (and, in the stream correlator,
\* the rules load), init completes in the stream correlator and in both
\* writers: the worker is in its loop, the group is the one that existed,
\* with its position and its pending entries, and the loop can read the
\* entries that wait after that position.
C20_BusyGroupIsSuccess ==
    /\ [][\A w \in GroupWorkers :
            /\ x_pc[w] = "init" /\ x_pc'[w] # "init"
            /\ g_create'[w] = "BUSYGROUP"
            /\ w = "stream_corr" => g_loaded'
            => /\ x_pc'[w] = "run"
               /\ g_group[GroupOf(w)].exists
               /\ g_group'[GroupOf(w)] = g_group[GroupOf(w)]]_vars
    /\ [](\A w \in GroupWorkers :
            /\ x_pc[w] = "run"
            /\ g_create[w] = "BUSYGROUP"
            /\ g_group[GroupOf(w)].exists
            /\ g_group[GroupOf(w)].pos < g_len
            => ENABLED G_Consume(w, TRUE))

\* the stream correlator and both writers were started again and got
\* BUSYGROUP; their groups stand at entry 1, which the writers left pending,
\* and entry 2 waits
C20_Witness ==
    /\ g_len = 2
    /\ g_group["writer"].pel = {1}
    /\ \A w \in GroupWorkers :
          /\ x_pc[w] = "run"
          /\ g_create[w] = "BUSYGROUP"
          /\ g_group[GroupOf(w)].pos = 1

----------------------------------------------------------------------------
(* Properties of ipv4_to_int                                              *)

\* the octets of a dotted quad, and the number each one writes
OctetOf == [v \in 0..255 |-> Decimal(v)]
OctetTextSet == {OctetOf[v] : v \in 0..255}
OctetNumber == [t \in OctetTextSet |-> CHOOSE v \in 0..255 : OctetOf[v] = t]

IsDottedQuad(ip) ==
    /\ ip # NoText
    /\ LET parts == SplitDots(ip, <<>>, <<>>)
       IN  Len(parts) = 4 /\ \A i \in 1..4 : parts[i] \in OctetTextSet

\* a*2^24 + b*2^16 + c*2^8 + d is (a*2^8 + b) * 2^16 + (c*2^8 + d)
QuadNumber(ip) ==
    LET parts == SplitDots(ip, <<>>, <<>>)
    IN  <<OctetNumber[parts[1]] * 256 + OctetNumber[parts[2]],
          OctetNumber[parts[3]] * 256 + OctetNumber[parts[4]]>>

\* the number a pair below 2^31 stands for
Number(v) == v[1] * 65536 + v[2]

\* C21: ipv4_to_int returns a*2^24 + b*2^16 + c*2^8 + d, a value of
\* 0 .. 2^32 - 1, for the dotted quad a.b.c.d, and 0 for None, for the empty
\* string and for every other text; it returns 167772161 for 10.0.0.1 and 0
\* for bad.
C21_DottedQuadOrZero ==
    ip_call.ret = "return" =>
        /\ IF IsDottedQuad(ip_call.ip)
           THEN /\ ip_call.value = QuadNumber(ip_call.ip)
                /\ ip_call.value \in (0..65535) \X (0..65535)
           ELSE ip_call.value = <<0, 0>>
        /\ ip_call.ip = <<"1", "0", ".", "0", ".", "0", ".", "1">>
              => Number(ip_call.value) = 167772161
        /\ ip_call.ip = <<"b", "a", "d">> => Number(ip_call.value) = 0

\* a call returned for 255.255.255.255, the largest address
C21_Witness ==
    /\ ip_call.ret = "return"
    /\ ip_call.ip = JoinDots(<<OctetOf[255], OctetOf[255], OctetOf[255], OctetOf[255]>>)
    /\ ip_call.value = <<65535, 65535>>

----------------------------------------------------------------------------
(* Properties of the alerts aggregator                                     *)

\* C22: whatever the moment a reader looks at alerts_agg, during a rebuild
\* or after one whose insert failed, the table is the complete aggregate of
\* alerts_raw as alerts_raw was at some moment: the aggregate of before the
\* rebuild or the new one.
C22_ReaderSeesCompleteAggregate ==
    \E k \in 1..Len(a_raw) : a_agg = AggSelect(SubSeq(a_raw, 1, k))

\* C23: when _run_aggregation has returned, alerts_agg holds one row for each
\* (rule_id, entity_key) of the rows of alerts_raw it read and no other row;
\* the row counts the alerts of the group, carries the least ts_first and the
\* greatest ts_last, at most 3 samples, and is open exactly when an alert of
\* the group is open.
C23_OneRowPerGroup ==
    (a_pc = "sleep" /\ a_last = "ok") =>
        LET Of(key) == {i \in 1..Len(a_src) :
                          a_src[i].rule_id = key[1] /\ a_src[i].entity_key = key[2]}
            RowsOf(key) == {row \in a_agg :
                              row.rule_id = key[1] /\ row.entity_key = key[2]}
        IN  /\ \A key \in AggKeys :
                  Cardinality(RowsOf(key)) = IF Of(key) = {} THEN 0 ELSE 1
            /\ \A row \in a_agg : <<row.rule_id, row.entity_key>> \in AggKeys
            /\ \A key \in AggKeys : \A row \in RowsOf(key) :
                  /\ row.count_alerts = Cardinality(Of(key))
                  /\ \A i \in Of(key) : /\ row.ts_first <= a_src[i].ts_first
                                          /\ row.ts_last >= a_src[i].ts_last
                  /\ \E i \in Of(key) : row.ts_first = a_src[i].ts_first
                  /\ \E i \in Of(key) : row.ts_last = a_src[i].ts_last
                  /\ Len(row.samples_json) <= 3
                  /\ row.status \in {"open", "closed"}
                  /\ row.status = "open" <=> \E i \in Of(key) : a_src[i].status = "open"

\* a run returned that read four alerts of one group, open and closed, and
\* an alert of another group
C23_Witness ==
    /\ a_pc = "sleep" /\ a_last = "ok"
    /\ Cardinality(a_agg) = 2
    /\ \E row \in a_agg : /\ row.count_alerts = 4 /\ row.status = "open"
                           /\ Len(row.samples_json) = 3
    /\ \E row \in a_agg : row.count_alerts = 1 /\ row.status = "closed"

----------------------------------------------------------------------------
(* Properties of the batch correlator                                      *)

\* the template with each token piece replaced by the decimal text of w
Substituted(pieces, w) ==
    Flatten([i \in 1..Len(pieces) |->
                IF pieces[i] = WindowToken THEN Decimal(w) ELSE pieces[i]])

\* C24: a tick executes one statement for each enabled rule, in the order of
\* the ids, the statement being the rule's template with every {WINDOW_S}
\* replaced by the rule's window_s; a statement that raises does not keep the
\* statements of the later rules from being executed, nor the loop from going
\* on to the next tick.
C24_EveryEnabledRuleInOrder ==
    LET table == bc_log.table
        stmts == bc_log.stmts
        enabled == {id \in DOMAIN table : table[id].enabled = 1}
    IN  /\ Len(stmts) = Cardinality(enabled)
        /\ {stmts[i].rule_id : i \in 1..Len(stmts)} = enabled
        /\ \A i, j \in 1..Len(stmts) : i < j => stmts[i].rule_id < stmts[j].rule_id
        /\ \A i \in 1..Len(stmts) :
              \E pieces \in TemplatePieces :
                 /\ table[stmts[i].rule_id].sql_template = Flatten(pieces)
                 /\ stmts[i].sql =
                      Substituted(pieces, table[stmts[i].rule_id].window_s)
        /\ (\E i \in 1..Len(stmts) : ~stmts[i].ok) => bc_pc = "run"
        /\ (\E i \in 1..Len(stmts) : ~stmts[i].ok) /\ bc_ticks < MaxTicks
              => ENABLED BC_Run

\* a tick whose first statement raised and whose second, with two tokens,
\* was executed, after a tick in which a statement raised
C24_Witness ==
    /\ Len(bc_log.stmts) = 2
    /\ ~bc_log.stmts[1].ok
    /\ bc_log.stmts[2].ok
    /\ bc_log.stmts[2].sql = <<"6", "0", "{", "6", "0">>
    /\ bc_failed

\* ---------------------------------------------------------------------------
\* C29, C30: the entries the normalizer and the filter append downstream
\* ---------------------------------------------------------------------------

\* the stream worker w reads
Upstream(w) == IF w = "normalizer" THEN n_raw ELSE n_normalized

\* the entry id of the upstream is not skipped by the rules of worker w
Passes(w, id) ==
    IF w = "normalizer" THEN NormApplyRules(n_rules, n_raw[id]).ret # "none"
    ELSE ApplyRules(f_rules, n_normalized[id]).decision # "drop"

\* the record worker w publishes for the entry id of its upstream
Image(w, id) ==
    IF w = "normalizer" THEN Stringify(NormApplyRules(n_rules, n_raw[id]).uem)
    ELSE Stringify(ApplyRules(f_rules, n_normalized[id]).result)

\* C29: when the XADD of an entry raises in the normalizer or the filter, the
\* entry is dropped: the cursor is at or past its id after the batch, every
\* later read asks after the cursor, which never goes back, so the entry is
\* not read again, nothing downstream is ever made from it, and every other
\* entry of the same batch that the rules let through is appended downstream
C29_FailedAppendDropsEvent ==
    /\ [][\A w \in CursorWorkers :
            LET batch == k_seen'[w] \ k_seen[w]
                failed == k_dropped'[w] \ k_dropped[w]
            IN  /\ failed \subseteq batch
                /\ \A id \in batch : id <= LastId(w)'
                /\ \A id \in batch \ failed :
                       Passes(w, id) => id \in Elems(k_origin'[w])
                /\ LastId(w)' >= LastId(w)
                /\ batch \subseteq (LastId(w) + 1)..Len(Upstream(w))
                /\ k_req'[w] # k_req[w] => k_req'[w].after = LastId(w)]_vars
    /\ [](\A w \in CursorWorkers : \A id \in k_dropped[w] :
            /\ id \notin Elems(k_origin[w])
            /\ id <= LastId(w))

\* in one batch of two the normalizer's XADD of entry 1 raised and entry 2
\* was appended downstream
C29_Witness ==
    /\ k_dropped["normalizer"] = {1}
    /\ k_origin["normalizer"] = <<2>>
    /\ k_req["normalizer"] = [after |-> 0, ok |-> TRUE]
    /\ n_last_id = 2
    /\ k_dropped["filter"] # {}

\* C30: the entries a worker appended downstream are, in order, the records
\* made from upstream entries of strictly increasing ids
C30_DownstreamOrderPreserved ==
    \A w \in CursorWorkers :
        /\ Len(k_origin[w]) = Len(Published(w))
        /\ \A i \in 1..Len(k_origin[w]) :
               /\ k_origin[w][i] \in 1..Len(Upstream(w))
               /\ Published(w)[i] = Image(w, k_origin[w][i])
               /\ \A j \in 1..Len(k_origin[w]) :
                      i < j => k_origin[w][i] < k_origin[w][j]

\* the normalizer appended the different records of entries 1 and 2 in that
\* order, and the filter appended the record of entry 2 but not of entry 1
C30_Witness ==
    /\ k_origin["normalizer"] = <<1, 2>>
    /\ n_normalized[1] # n_normalized[2]
    /\ k_origin["filter"] = <<2>>
    /\ k_filtered = <<Image("filter", 2)>>

\* ---------------------------------------------------------------------------
\* C31, C32: the rules load_rules gives and the one apply_rules uses
\* ---------------------------------------------------------------------------

\* the rows of the table that load_rules makes a rule of
Loadable(table) == {r \in table : r.enabled = 1 /\ r.json = "object"}

\* the record published for raw_event when rule is the only rule
AloneRecord(rule, raw_event) ==
    Stringify(ApplyDefaults(ApplyMapping(rule.compiled_mapping, raw_event),
                            raw_event))

\* C31: every record published is the one the first rule of the loaded list
\* gives alone for its entry, whatever the source_type of the entry and the
\* other rules; with rules every entry taken whose XADD did not raise has a
\* record; the loaded list is ordered by priority, then id; with an empty
\* list a batch publishes nothing and moves the cursor past its entries
C31_OnlyFirstRuleApplied ==
    /\ [](nl_pc = "running" =>
            /\ \A i, j \in 1..Len(nl_rules) :
                   i < j => RowBefore(nl_rules[i], nl_rules[j])
            /\ \A i \in 1..Len(nl_origin) :
                   nl_published[i] = AloneRecord(nl_rules[1], nl_raw[nl_origin[i]])
            /\ nl_rules # <<>> => Elems(nl_origin) = (1..nl_last_id) \ nl_failed
            /\ nl_rules = <<>> => nl_published = <<>>)
    /\ [][nl_rules = <<>> /\ nl_last_id < Len(nl_raw) /\ nl_pc = "running"
             /\ nl_raw' = nl_raw
            => /\ nl_last_id' > nl_last_id
               /\ nl_published' = nl_published]_vars

\* with the rule of source_type http_json first and the syslog rule second,
\* the syslog entry 1 was published as the http_json rule maps it
C31_Witness ==
    /\ Len(nl_rules) = 2
    /\ nl_rules[1].source_type = "http_json"
    /\ nl_rules[2].source_type = "syslog"
    /\ nl_origin = <<1>>
    /\ nl_raw[1].source_type = "syslog"
    /\ nl_published[1]["event.provider"] = "second"
    /\ \E r \in nl_table : r.json = "bad" /\ r.priority = 0

\* C32: every enabled row whose uem_mapping is a JSON object is loaded as a
\* rule at the position its priority and id give it among such rows, with
\* exactly the mapping entries whose expression compiles
C32_FailedCompileDropsEntryOnly ==
    nl_pc = "running" =>
        /\ Len(nl_rules) = Cardinality(Loadable(nl_table))
        /\ \A r \in Loadable(nl_table) :
               LET i == 1 + Cardinality({o \in Loadable(nl_table) : RowBefore(o, r)})
               IN  /\ nl_rules[i].id = r.id
                   /\ DOMAIN nl_rules[i].compiled_mapping =
                          {f \in DOMAIN r.entries : ~CompileRaises(r.entries[f])}
                   /\ \A f \in DOMAIN nl_rules[i].compiled_mapping :
                          nl_rules[i].compiled_mapping[f] = r.entries[f]

\* three rules loaded: the second lost its only mapping entry and the third
\* one entry of three
C32_Witness ==
    /\ Len(nl_rules) = 3
    /\ nl_rules[1].id = 2
    /\ nl_rules[2].id = 6 /\ nl_rules[2].compiled_mapping = EmptyDict
    /\ nl_rules[3].id = 1
    /\ DOMAIN nl_rules[3].compiled_mapping = {"event.provider", "event.category"}
    /\ nl_published # <<>>

\* ---------------------------------------------------------------------------
\* C33, C35: the rules the filter and the stream correlator hold after a load
\* ---------------------------------------------------------------------------

\* the texts of the rule tables that are empty or that parse_expr rejects
UnusableTexts == {<<>>, TextDangling, TextUnterminated}

\* the rules of a list that were loaded from a usable expression
RECURSIVE Present(_, _)
Present(rules, table) ==
    IF rules = <<>> THEN <<>>
    ELSE (IF \E r \in table : r.id = Head(rules).id /\ r.expr \in UnusableTexts
          THEN <<>> ELSE <<Head(rules)>>) \o Present(Tail(rules), table)

\* the ids of the rows without usable expression
NullIds(table) == {r.id : r \in {x \in table : x.expr \in UnusableTexts}}

\* C33: every row is loaded, in the order of the ids, with a null AST exactly
\* when its expression is empty or does not parse; the decision and the event
\* apply_rules returns, and the windows, last_alert_ts keys and alerts after
\* the correlator's loop, are those the list without the null-AST rules
\* gives; no window entry and no alert belongs to a null-AST rule
C33_NullAstRuleNeverMatches ==
    /\ [](rl_kind # "none" =>
            /\ Len(rl_rules) = Cardinality(rl_table)
            /\ \A i \in 1..Len(rl_rules) :
                   /\ \E r \in rl_table :
                          /\ r.id = rl_rules[i].id
                          /\ i = Cardinality({o \in rl_table : o.id <= r.id})
                          /\ (rl_rules[i].expr_ast = NoAst) = (r.expr \in UnusableTexts)
            /\ rl_call.kind = "filter" =>
                   LET r == ApplyRules(Present(rl_rules, rl_table), rl_call.event)
                   IN  rl_call.decision = r.decision /\ rl_call.result = r.result
            /\ \A id \in NullIds(rl_table) :
                   /\ \A ev \in RuleLoadStreamEvents \cup RuleLoadFilterEvents :
                          \A i \in 1..Len(rl_rules) :
                              rl_rules[i].id = id
                                  => ~EvalExpr(rl_rules[i].expr_ast, ev)
                   /\ rl_kind = "stream"
                          => /\ rl_st.z[<<id, "u1">>] = {}
                             /\ rl_st.last[<<id, "u1">>] = NoKey
                             /\ \A e \in rl_st.emitted : e.rule_id # id)
    /\ [][rl_call'.kind = "corr" /\ rl_next' # rl_next
            => rl_st' = CorrRules(rl_st, Present(rl_rules, rl_table), 1,
                                  rl_call'.msg, rl_call'.event, rl_call'.now)]_vars

\* the filter holds a drop rule and a tag rule without usable expression
\* before the rule that tags the event, and the event is tagged by that rule
\* alone
C33_Witness ==
    /\ rl_kind = "filter"
    /\ {1, 2, 3} \subseteq {r.id : r \in rl_table}
    /\ rl_call.kind = "filter"
    /\ rl_call.event = [a |-> "1"]
    /\ rl_call.decision = "tag"
    /\ rl_call.result = [a |-> "1", tags |-> "a"]

\* C35: every rule the correlator holds has threshold >= 1 and window_s >= 1
C35_ThresholdAndWindowPositive ==
    rl_kind = "stream" =>
        \A i \in 1..Len(rl_rules) :
            rl_rules[i].threshold >= 1 /\ rl_rules[i].window_s >= 1

\* ---------------------------------------------------------------------------
\* C34: what eval_expr returns
\* ---------------------------------------------------------------------------

\* the text a comparison of field compares: the value under the key field,
\* the empty text when the event has no such key or a null under it
Compared(event, field) ==
    IF field \in DOMAIN event /\ event[field] # None THEN event[field] ELSE ""

\* the truth of a tree: string equality and inequality at the comparisons,
\* conjunction and disjunction above them
RECURSIVE Holds(_, _)
Holds(ast, event) ==
    IF ast.t = "cmp"
    THEN IF ast.op = "==" THEN Compared(event, ast.field) = ast.val
         ELSE Compared(event, ast.field) # ast.val
    ELSE IF ast.t = "and" THEN Holds(ast.l, event) /\ Holds(ast.r, event)
    ELSE Holds(ast.l, event) \/ Holds(ast.r, event)

\* C34: eval_expr returns the truth of the tree, the field of a comparison
\* being looked up as one key and a missing or null field compared as the
\* empty string: without field f (or with a null f), f == '' is true,
\* f == 'v' is false and f != 'v' is true; a null tree gives false
C34_MissingFieldIsEmptyString ==
    e_call.ret # "nocall" =>
        /\ e_call.ret # "raise"
        /\ e_call.ast = NoAst => e_call.ret = "false"
        /\ e_call.ast # NoAst =>
               (e_call.ret = "true") = Holds(e_call.ast, e_call.event)
        /\ \A f \in {"f", "b.c"} :
               Get(e_call.event, f) = None =>
                   /\ e_call.ast = Cmp(f, "==", "") => e_call.ret = "true"
                   /\ e_call.ast = Cmp(f, "==", "v") => e_call.ret = "false"
                   /\ e_call.ast = Cmp(f, "!=", "v") => e_call.ret = "true"

\* (b.c == 'v' or f == '') and f != 'v' evaluated to true on an event that
\* has a null f and no b.c
C34_Witness ==
    /\ e_call.ast = And(Or(Cmp("b.c", "==", "v"), Cmp("f", "==", "")),
                        Cmp("f", "!=", "v"))
    /\ e_call.event = [f |-> None]
    /\ e_call.ret = "true"

\* ---------------------------------------------------------------------------
\* C36: what the filter appends to FILTERED
\* ---------------------------------------------------------------------------

\* C36: in every iteration of the filter, an entry read whose decision is
\* drop has no record in FILTERED, an entry whose decision is pass or tag and
\* whose XADD did not raise has exactly one, which is the event apply_rules
\* returned with nulls as empty strings, an entry whose XADD raised has none,
\* and the records already in FILTERED stay as they are
C36_DropNeverPublished ==
    [][LET batch == k_seen'["filter"] \ k_seen["filter"]
           failed == k_dropped'["filter"] \ k_dropped["filter"]
           made(id) == {i \in 1..Len(k_origin'["filter"]) :
                           k_origin'["filter"][i] = id}
       IN  /\ Len(k_filtered') >= Len(k_filtered)
           /\ SubSeq(k_filtered', 1, Len(k_filtered)) = k_filtered
           /\ Len(k_origin'["filter"]) = Len(k_filtered')
           /\ \A i \in (Len(k_filtered) + 1)..Len(k_filtered') :
                  k_origin'["filter"][i] \in batch
           /\ \A id \in batch :
                  LET r == ApplyRules(f_rules, n_normalized[id])
                  IN  /\ r.decision = "drop" => made(id) = {}
                      /\ id \in failed => made(id) = {}
                      /\ r.decision \in {"pass", "tag"} /\ id \notin failed
                         => /\ Cardinality(made(id)) = 1
                            /\ \A i \in made(id) :
                                   k_filtered'[i] = Stringify(r.result)]_vars

\* of one batch, entry 1 was dropped and entry 2 published with the tags of
\* the rule joined to its own
C36_Witness ==
    /\ k_last_id = 2
    /\ k_req["filter"].after = 0
    /\ k_origin["filter"] = <<2>>
    /\ n_normalized[1] = [x |-> "2"]
    /\ k_filtered = <<[x |-> "1", tags |-> "t0,a"]>>

\* ---------------------------------------------------------------------------
\* C37: the window under calls with a message id seen before
\* ---------------------------------------------------------------------------

\* the message ids whose last call was in (now - window_s, now]
IdsInWindow(now) ==
    {id \in 1..MaxRedeliverIds :
        z_seen[id] # 0 /\ z_seen[id] > now - RedeliverRule.window_s
                      /\ z_seen[id] <= now}

MaxRetained == MaxRaw * (MaxRestarts + 1)

\* C40: the cursor of the normalizer and of the filter lives in the process.
\* A process that starts has it at 0-0 and finds the streams as they were.
\* Within one run the cursor only grows, a batch takes exactly the entries
\* between the old and the new cursor, so no entry twice, and what it
\* appends downstream is made from those entries in order, one record for
\* each the rules let through.  The entries taken in a run are always those
\* up to the cursor, and a run that goes on takes every entry the upstream
\* holds: after a restart the retained entries are read and published again.
C40_CursorOnlyInMemory ==
    /\ [][\A w \in CursorWorkers :
            LET news == SubSeq(k_origin'[w], Len(k_origin[w]) + 1, Len(k_origin'[w]))
                batch == (LastId(w) + 1)..LastId(w)'
            IN  IF t_run'[w] # t_run[w]
                THEN /\ LastId(w)' = 0
                     /\ Upstream(w)' = Upstream(w)
                     /\ Published(w)' = Published(w)
                ELSE /\ LastId(w)' >= LastId(w)
                     /\ k_seen'[w] = k_seen[w] \cup batch
                     /\ k_seen[w] \cap batch = {}
                     /\ Len(k_origin'[w]) >= Len(k_origin[w])
                     /\ \A i \in 1..Len(news) :
                            /\ news[i] \in batch
                            /\ \A j \in 1..Len(news) : i < j => news[i] < news[j]
                     /\ \A id \in batch : Passes(w, id) => id \in Elems(news)]_vars
    /\ [](\A w \in CursorWorkers : k_seen[w] = 1..LastId(w))
    /\ \A w \in CursorWorkers : []<>(k_seen[w] = 1..Len(Upstream(w)))

\* the normalizer took entries 1 and 2, was started again and took them
\* again: NORMALIZED holds the two records twice, and the filter, in its
\* first run, appended all four to FILTERED
C40_Witness ==
    /\ t_run["normalizer"] = 1
    /\ k_origin["normalizer"] = <<1, 2, 1, 2>>
    /\ n_normalized[1] = n_normalized[3]
    /\ n_normalized[2] = n_normalized[4]
    /\ n_last_id = 2
    /\ k_origin["filter"] = <<1, 2, 3, 4>>
    /\ Len(k_filtered) = 4

====
